---------------------------- MODULE Spec2Model ----------------------------
(***************************************************************************)
(* A model of the quantdl operator engine and disk cache.                  *)
(*                                                                         *)
(*   SpecTradeWhen  operators/transformational.py  trade_when              *)
(*   SpecBucket     operators/transformational.py  bucket                  *)
(*   SpecCache      storage/cache.py               DiskCache, one caller   *)
(*   SpecCacheConc  storage/cache.py               DiskCache, threads      *)
(*   SpecElementwise operators/arithmetic.py       add ... sqrt; trade_when *)
(*   SpecSession    alpha/session.py               AlphaSession, threads   *)
(*   SpecTimeSeries operators/time_series.py        rolling operators       *)
(*   SpecCrossSection operators/cross_sectional.py  rank, scale             *)
(*                                                                         *)
(* Every specification drives one component; the variables of the other    *)
(* components stay parked at their idle values.                            *)
(***************************************************************************)
EXTENDS Integers, Sequences, FiniteSets, TLC

VARIABLES
    \* trade_when (one value column of the three input tables)
    trig_vals,      \* trigger[c].to_list()
    alpha_vals,     \* alpha[c].to_list()
    exit_vals,      \* exit_trigger[c].to_list()
    out,            \* the output list built so far
    prev_alpha,     \* the carried value
    tw_i,           \* number of rows processed (the loop index i)
    tw_pc,          \* "loop" | "done"
    \* bucket (one value column of x)
    range_spec,     \* the range_spec argument
    buckets,        \* the buckets argument
    bk_flags,       \* skipBegin, skipEnd, skipBoth, NANGroup
    col_data,       \* x[c].to_list()
    boundaries,     \* the parsed boundary list
    brackets,       \* [(lower, upper, idx), ...]
    nan_idx,        \* the index of null / NaN cells, or null
    bucket_indices, \* the output list built so far
    bk_error,       \* the exception raised, "" when none
    bk_pc,          \* "call" | "parsed" | "built" | "done" | "raised"
    \* disk cache
    entries,        \* key -> [payload, size_bytes, created_at, last_accessed_at]
    order,          \* the resident keys, oldest insertion first
    now,            \* the clock
    dc_op,          \* the last operation and what it returned
    put_log,        \* resident key -> the table of the most recent put
    scen,           \* progress of the run through the LRU scenario
    \* disk cache, concurrent callers
    threads,        \* thread -> [pc, call, read, result, expect, raised]
    lock,           \* the holder of the cache lock, 0 when free
    lin,            \* the cache after the calls so far, one at a time
    \* elementwise operators
    ew_op,          \* the operator called
    ew_args,        \* its table arguments
    ew_filter,      \* the filter flag
    ew_result,      \* the table returned
    ew_error,       \* the exception raised, "" when none
    ew_pc,          \* "call" | "done" | "raised"
    \* AlphaSession
    s_active,       \* self._active
    s_cache,        \* self._cache: field name -> Alpha object
    s_lock,         \* the holder of self._lock, "" when free
    s_eager,        \* the fields prefetched by __enter__
    s_thr,          \* thread -> its call and how far it is
    s_exits,        \* number of __exit__ calls so far
    s_next,         \* the next Alpha object
    s_failed,       \* number of client fetches that raised
    s_tried,        \* field -> client fetches made while active since the last __exit__
    s_ok,           \* field -> of these, the fetches that returned
    s_seen,         \* field -> objects returned since the last __exit__
    \* one call of an operator on a wide table
    wt_op,          \* the operator
    wt_x,           \* its table
    wt_par,         \* its other argument
    wt_out,         \* the exception raised or the table returned
    wt_pc,          \* "call" | "done" | "raised"
    \* cl
    cl_cache,       \* path -> the table the disk cache holds for it
    cl_call,        \* the last request: kind, start, end
    cl_ret,         \* what it returned: None, or rows
    \* cm
    cm_df,          \* self._df: None, or the calendar table
    cm_days,        \* self._trading_days: None, or the set of dates
    cm_cache,       \* the disk cache: absent, or what it holds for the calendar path
    cm_reads,       \* number of storage reads made by this instance
    cm_loaded,      \* a call of _load has returned
    cm_last         \* the last call and its outcome

twVars == <<trig_vals, alpha_vals, exit_vals, out, prev_alpha, tw_i, tw_pc>>

bkVars == <<range_spec, buckets, bk_flags, col_data, boundaries, brackets,
            nan_idx, bucket_indices, bk_error, bk_pc>>

dcVars == <<entries, order, now, dc_op, put_log, scen>>

ccVars == <<threads, lock, lin>>

ewVars == <<ew_op, ew_args, ew_filter, ew_result, ew_error, ew_pc>>

sessVars == <<s_active, s_cache, s_lock, s_eager, s_thr, s_exits, s_next, s_failed,
              s_tried, s_ok, s_seen>>

wtVars == <<wt_op, wt_x, wt_par, wt_out, wt_pc>>

clVars == <<cl_cache, cl_call, cl_ret>>

cmVars == <<cm_df, cm_days, cm_cache, cm_reads, cm_loaded, cm_last>>

vars == <<twVars, bkVars, dcVars, ccVars, ewVars, sessVars, wtVars, clVars, cmVars>>

----------------------------------------------------------------------------
(* Cells of a wide table: a nullable Float64.  A cell is a record so that  *)
(* any two cells can be compared.                                          *)

Null == [k |-> "null", v |-> 0]
NaN == [k |-> "nan", v |-> 0]
NegInf == [k |-> "ninf", v |-> 0]
PosInf == [k |-> "pinf", v |-> 0]
Num(n) == [k |-> "num", v |-> n]

\* Python's `x is not None and x > 0` on a cell (NaN > 0 is False).
GtZero(c) == (c.k = "num" /\ c.v > 0) \/ c.k = "pinf"


\* An optional string argument that was not given (None).
NoSpec == [given |-> FALSE, parts |-> <<>>]

----------------------------------------------------------------------------
(* The values the variables of a component hold while another component   *)
(* is being driven.                                                        *)

CmIdle ==
    /\ cm_df = <<>>
    /\ cm_days = <<>>
    /\ cm_cache = <<>>
    /\ cm_reads = 0
    /\ cm_loaded = FALSE
    /\ cm_last = <<>>

ClIdle ==
    /\ cl_cache = <<>>
    /\ cl_call = <<>>
    /\ cl_ret = <<>>

TwIdle ==
    /\ trig_vals = <<>>
    /\ alpha_vals = <<>>
    /\ exit_vals = <<>>
    /\ out = <<>>
    /\ prev_alpha = Null
    /\ tw_i = 0
    /\ tw_pc = "idle"

BkIdle ==
    /\ range_spec = NoSpec
    /\ buckets = NoSpec
    /\ bk_flags = [skipBegin |-> FALSE, skipEnd |-> FALSE, skipBoth |-> FALSE,
                   NANGroup |-> FALSE]
    /\ col_data = <<>>
    /\ boundaries = <<>>
    /\ brackets = <<>>
    /\ nan_idx = Null
    /\ bucket_indices = <<>>
    /\ bk_error = ""
    /\ bk_pc = "idle"

DcIdle ==
    /\ entries = <<>>
    /\ order = <<>>
    /\ now = 0
    /\ dc_op = <<>>
    /\ put_log = <<>>
    /\ scen = <<>>

\* What each component's steps leave alone.
CcIdle ==
    /\ threads = <<>>
    /\ lock = 0
    /\ lin = <<>>

EwIdle ==
    /\ ew_op = ""
    /\ ew_args = <<>>
    /\ ew_filter = FALSE
    /\ ew_result = <<>>
    /\ ew_error = ""
    /\ ew_pc = "idle"

WtIdle ==
    /\ wt_op = ""
    /\ wt_x = <<>>
    /\ wt_par = 0
    /\ wt_out = <<>>
    /\ wt_pc = "idle"

SessIdle ==
    /\ s_active = FALSE
    /\ s_cache = <<>>
    /\ s_lock = ""
    /\ s_eager = <<>>
    /\ s_thr = <<>>
    /\ s_exits = 0
    /\ s_next = 0
    /\ s_failed = 0
    /\ s_tried = <<>>
    /\ s_ok = <<>>
    /\ s_seen = <<>>

TwFrame == UNCHANGED <<bkVars, dcVars, ccVars, ewVars, sessVars, wtVars, clVars, cmVars>>
BkFrame == UNCHANGED <<twVars, dcVars, ccVars, ewVars, sessVars, wtVars, clVars, cmVars>>
DcFrame == UNCHANGED <<twVars, bkVars, ccVars, ewVars, sessVars, wtVars, clVars, cmVars>>
CcFrame == UNCHANGED <<twVars, bkVars, now, dc_op, put_log, scen, ewVars, sessVars, wtVars, clVars, cmVars>>
EwFrame1 == UNCHANGED <<twVars, bkVars, dcVars, ccVars, sessVars, wtVars, clVars, cmVars>>
SessFrame == UNCHANGED <<twVars, bkVars, dcVars, ccVars, ewVars, wtVars, clVars, cmVars>>
WtFrame == UNCHANGED <<twVars, bkVars, dcVars, ccVars, ewVars, sessVars, clVars, cmVars>>
ClFrame == UNCHANGED <<twVars, bkVars, dcVars, ccVars, ewVars, sessVars, wtVars, cmVars>>
CmFrame == UNCHANGED <<twVars, bkVars, dcVars, ccVars, ewVars, sessVars, wtVars, clVars>>

----------------------------------------------------------------------------
(* trade_when                                                              *)

MaxRows == 3

\* The value a non-null alpha cell holds at row t (1-based): distinct per
\* row, so that an output cell tells which row it was taken from (5, 6, 7,
\* ... as in the example below).
AlphaAt(t) == Num(t + 4)

TriggerCells == {Null, Num(0), Num(1)}

\* Testable property 6 of the specification: entry, alpha and exit columns.
ExampleTrig == <<Num(0), Num(1), Num(0), Num(0), Num(0)>>
ExampleAlpha == <<Num(5), Num(6), Num(7), Num(8), Num(9)>>
ExampleExit == <<Num(0), Num(0), Num(0), Num(1), Num(0)>>
ExampleOut == <<Null, Num(6), Num(6), Null, Null>>

\* The alpha columns of n rows: any of the cells may be null.
AlphaColumns(n) ==
    {[r \in 1..n |-> IF r \in S THEN AlphaAt(r) ELSE Null] : S \in SUBSET (1..n)}

\* Which branch of the if / elif / else a row takes.
TwBranchEntryFirst(trig, exit_v) ==
    IF GtZero(trig) THEN "entry"
    ELSE IF GtZero(exit_v) THEN "exit"
    ELSE "hold"

TwBranch(trig, exit_v) ==
    IF GtZero(exit_v) THEN "exit"
    ELSE IF GtZero(trig) THEN "entry"
    ELSE "hold"

\* The cell appended to out.
TwOutputHoldNull(branch, alph, prev) ==
    IF branch = "entry" THEN alph ELSE Null

TwOutput(branch, alph, prev) ==
    IF branch = "exit" THEN Null
    ELSE IF branch = "entry" THEN alph
    ELSE prev

\* The carried prev_alpha after the row.
TwCarryExitKeeps(branch, alph, prev) ==
    IF branch = "entry" THEN alph ELSE prev

TwCarry(branch, alph, prev) ==
    IF branch = "exit" THEN Null
    ELSE IF branch = "entry" THEN alph
    ELSE prev

\* The three columns have one length (0..MaxRows rows, or the example).
TwInit ==
    /\ \/ /\ trig_vals = ExampleTrig
          /\ alpha_vals = ExampleAlpha
          /\ exit_vals = ExampleExit
       \/ \E n \in 0..MaxRows :
             /\ trig_vals \in [1..n -> TriggerCells]
             /\ alpha_vals \in AlphaColumns(n)
             /\ exit_vals \in [1..n -> TriggerCells]
    /\ out = <<>>
    /\ prev_alpha = Null
    /\ tw_i = 0
    /\ tw_pc = "loop"
    /\ BkIdle
    /\ DcIdle
    /\ CcIdle
    /\ EwIdle
    /\ SessIdle
    /\ WtIdle
    /\ ClIdle
    /\ CmIdle

\* The branch taken by the row about to be processed.
TwBranchAt == TwBranch(trig_vals[tw_i + 1], exit_vals[tw_i + 1])

\* One iteration of `for i in range(n)`: out.append(...) and the update of
\* prev_alpha under branch b.
TwRow(b) ==
    /\ out' = Append(out, TwOutput(b, alpha_vals[tw_i + 1], prev_alpha))
    /\ prev_alpha' = TwCarry(b, alpha_vals[tw_i + 1], prev_alpha)
    /\ tw_i' = tw_i + 1
    /\ UNCHANGED <<trig_vals, alpha_vals, exit_vals, tw_pc>>
    /\ TwFrame

\* if exit_v is not None and exit_v > 0
TwExit ==
    /\ tw_pc = "loop"
    /\ tw_i < Len(trig_vals)
    /\ TwBranchAt = "exit"
    /\ TwRow("exit")

\* elif trig is not None and trig > 0
TwEntry ==
    /\ tw_pc = "loop"
    /\ tw_i < Len(trig_vals)
    /\ TwBranchAt = "entry"
    /\ TwRow("entry")

\* else
TwHold ==
    /\ tw_pc = "loop"
    /\ tw_i < Len(trig_vals)
    /\ TwBranchAt = "hold"
    /\ TwRow("hold")

\* The loop is exhausted: result_data[c] = out.
TwFinish ==
    /\ tw_pc = "loop"
    /\ tw_i = Len(trig_vals)
    /\ tw_pc' = "done"
    /\ UNCHANGED <<trig_vals, alpha_vals, exit_vals, out, prev_alpha, tw_i>>
    /\ TwFrame

TwNext == TwExit \/ TwEntry \/ TwHold \/ TwFinish

----------------------------------------------------------------------------
(* bucket                                                                  *)

MaxBoundaries == 3

\* A part of a comma-separated specification string: a numeric literal,
\* which float() converts to its value, or text float() rejects with a
\* ValueError.  A specification string is the sequence of its parts
\* (str.split(",") yields at least one part).
Bad == [k |-> "bad", v |-> 0]

BkTokens == {Num(-5), Num(0), Num(5), Num(10), Bad}

\* The parts of a string argument.
SpecStr(ps) == [given |-> TRUE, parts |-> ps]

RangeSpecs == {SpecStr(ps) : ps \in [1..2 -> BkTokens] \cup [1..3 -> BkTokens]}

BucketSpecs == {SpecStr(ps) : ps \in UNION {[1..n -> BkTokens] : n \in 1..MaxBoundaries}}

\* The (range_spec, buckets) argument pairs: neither, one of the two, both.
BkSpecArgs ==
    {<<NoSpec, NoSpec>>}
    \cup {<<r, NoSpec>> : r \in RangeSpecs}
    \cup {<<NoSpec, b>> : b \in BucketSpecs}
    \cup {<<SpecStr(<<Num(0), Num(10), Num(5)>>), SpecStr(<<Num(0), Num(5)>>)>>}

BkFlags == [skipBegin : BOOLEAN, skipEnd : BOOLEAN, skipBoth : BOOLEAN,
            NANGroup : BOOLEAN]

BkCells == {Null, NaN, NegInf, Num(-3), Num(0), Num(5), Num(7), Num(10),
            Num(12), PosInf}

\* A column holding every kind of cell once.
BkAllCells == <<Num(7), Num(-3), Null, Num(0), NaN, Num(5), NegInf, Num(10),
                PosInf, Num(12)>>

\* The columns of x: every one-cell column, and the column of all cells (a
\* cell's index depends on no other cell).
BkColumns == {<<c>> : c \in BkCells} \cup {BkAllCells}

\* float comparison a < b on cells holding floats (false when either is NaN).
CellLt(a, b) ==
    CASE a.k = "ninf" -> b.k \in {"num", "pinf"}
      [] a.k = "num" -> b.k = "pinf" \/ (b.k = "num" /\ a.v < b.v)
      [] OTHER -> FALSE

\* float comparison a <= b.
CellLe(a, b) == CellLt(a, b) \/ (a = b /\ a.k \in {"ninf", "num", "pinf"})

\* The while loop of the range walk: val, val + step, ... while val <= end
\* (on the integer grid of the model the 1e-9 tolerance admits no further
\* value).
RECURSIVE RangeWalk(_, _, _)
RangeWalk(val, end, step) ==
    IF val <= end THEN <<val>> \o RangeWalk(val + step, end, step) ELSE <<>>

InvalidBucketSpecError == "InvalidBucketSpecError"
IndexError == "IndexError"

\* Only the first part is converted.
BkValueErrorFirst(parts) == parts[1] = Bad

\* float() raises ValueError on some part.
BkValueError(parts) == \E j \in 1..Len(parts) : parts[j] = Bad

\* Lines 48-78: the exception raised ("" when none) and the boundary list.
BkParse(rs, bs) ==
    IF ~rs.given /\ ~bs.given THEN [err |-> InvalidBucketSpecError, boundaries |-> <<>>]
    ELSE IF rs.given /\ bs.given THEN [err |-> InvalidBucketSpecError, boundaries |-> <<>>]
    ELSE IF rs.given THEN
        IF Len(rs.parts) # 3 THEN [err |-> InvalidBucketSpecError, boundaries |-> <<>>]
        ELSE IF BkValueError(rs.parts) THEN [err |-> InvalidBucketSpecError, boundaries |-> <<>>]
        ELSE IF rs.parts[3].v <= 0 THEN [err |-> InvalidBucketSpecError, boundaries |-> <<>>]
        ELSE [err |-> "",
              boundaries |-> RangeWalk(rs.parts[1].v, rs.parts[2].v, rs.parts[3].v)]
    ELSE
        IF BkValueError(bs.parts) THEN [err |-> InvalidBucketSpecError, boundaries |-> <<>>]
        ELSE IF Len(bs.parts) < 2 THEN [err |-> InvalidBucketSpecError, boundaries |-> <<>>]
        ELSE [err |-> "", boundaries |-> [j \in 1..Len(bs.parts) |-> bs.parts[j].v]]

\* Lines 81-82.
SkipBegin(fl) == fl.skipBegin \/ fl.skipBoth

\* skipBoth left out of the tail's flag.
SkipEndOnly(fl) == fl.skipEnd

SkipEnd(fl) == fl.skipEnd \/ fl.skipBoth

\* Lines 86-102: boundaries[0] and boundaries[-1] raise IndexError on an
\* empty list.
BkBuildError(bnd, fl) ==
    IF Len(bnd) = 0 /\ (~SkipBegin(fl) \/ ~SkipEnd(fl)) THEN IndexError ELSE ""

BkHead(bnd, fl) ==
    IF SkipBegin(fl) THEN <<>>
    ELSE <<[lower |-> NegInf, upper |-> Num(bnd[1]), idx |-> 0]>>

BkRegular(bnd, first) ==
    [j \in 1..(Len(bnd) - 1) |->
        [lower |-> Num(bnd[j]), upper |-> Num(bnd[j + 1]), idx |-> first + j - 1]]

BkTail(bnd, fl, idx) ==
    IF SkipEnd(fl) THEN <<>>
    ELSE <<[lower |-> Num(bnd[Len(bnd)]), upper |-> PosInf, idx |-> idx]>>

BkBrackets(bnd, fl) ==
    LET head == BkHead(bnd, fl)
        regular == BkRegular(bnd, Len(head))
    IN head \o regular \o BkTail(bnd, fl, Len(head) + Len(regular))

\* The index of the last bracket in place of the one after it.
BkNanIdxLast(brs, fl) == IF fl.NANGroup THEN Num(Len(brs) - 1) ELSE Null

\* Line 104: idx counts the brackets built.
BkNanIdx(brs, fl) == IF fl.NANGroup THEN Num(Len(brs)) ELSE Null

\* Line 119 with the open upper end: lower < val < upper.
BkInBracketOpen(val, br) == CellLt(br.lower, val) /\ CellLt(val, br.upper)

\* Line 119: lower < val <= upper.
BkInBracket(val, br) == CellLt(br.lower, val) /\ CellLe(val, br.upper)

\* Lines 114-122: the index appended for one cell.
BkAssign(val, brs, nidx) ==
    IF val = Null \/ val = NaN THEN nidx
    ELSE LET hits == {j \in 1..Len(brs) : BkInBracket(val, brs[j])}
         IN IF hits = {} THEN Null
            ELSE Num(brs[CHOOSE j \in hits : \A h \in hits : j <= h].idx)

BkInit ==
    /\ \E sp \in BkSpecArgs :
          /\ range_spec = sp[1]
          /\ buckets = sp[2]
    /\ bk_flags \in BkFlags
    /\ col_data \in BkColumns
    /\ boundaries = <<>>
    /\ brackets = <<>>
    /\ nan_idx = Null
    /\ bucket_indices = <<>>
    /\ bk_error = ""
    /\ bk_pc = "call"
    /\ TwIdle
    /\ DcIdle
    /\ CcIdle
    /\ EwIdle
    /\ SessIdle
    /\ WtIdle
    /\ ClIdle
    /\ CmIdle

\* Lines 48-78 raise.
BkReject ==
    /\ bk_pc = "call"
    /\ BkParse(range_spec, buckets).err # ""
    /\ bk_error' = BkParse(range_spec, buckets).err
    /\ bk_pc' = "raised"
    /\ UNCHANGED <<range_spec, buckets, bk_flags, col_data, boundaries, brackets,
                   nan_idx, bucket_indices>>
    /\ BkFrame

\* Lines 48-78 leave a boundary list.
BkAccept ==
    /\ bk_pc = "call"
    /\ BkParse(range_spec, buckets).err = ""
    /\ boundaries' = BkParse(range_spec, buckets).boundaries
    /\ bk_pc' = "parsed"
    /\ UNCHANGED <<range_spec, buckets, bk_flags, col_data, brackets, nan_idx,
                   bucket_indices, bk_error>>
    /\ BkFrame

\* Lines 80-104 raise.
BkBuildFail ==
    /\ bk_pc = "parsed"
    /\ BkBuildError(boundaries, bk_flags) # ""
    /\ bk_error' = BkBuildError(boundaries, bk_flags)
    /\ bk_pc' = "raised"
    /\ UNCHANGED <<range_spec, buckets, bk_flags, col_data, boundaries, brackets,
                   nan_idx, bucket_indices>>
    /\ BkFrame

\* Lines 80-104 build the brackets and nan_idx.
BkBuild ==
    /\ bk_pc = "parsed"
    /\ BkBuildError(boundaries, bk_flags) = ""
    /\ brackets' = BkBrackets(boundaries, bk_flags)
    /\ nan_idx' = BkNanIdx(BkBrackets(boundaries, bk_flags), bk_flags)
    /\ bk_pc' = "built"
    /\ UNCHANGED <<range_spec, buckets, bk_flags, col_data, boundaries,
                   bucket_indices, bk_error>>
    /\ BkFrame

\* Lines 113-122: one iteration of `for val in col_data`.
BkAssignCell ==
    /\ bk_pc = "built"
    /\ Len(bucket_indices) < Len(col_data)
    /\ bucket_indices' =
          Append(bucket_indices,
                 BkAssign(col_data[Len(bucket_indices) + 1], brackets, nan_idx))
    /\ UNCHANGED <<range_spec, buckets, bk_flags, col_data, boundaries, brackets,
                   nan_idx, bk_error, bk_pc>>
    /\ BkFrame

\* Lines 123-125: the column is done and the table is returned.
BkReturn ==
    /\ bk_pc = "built"
    /\ Len(bucket_indices) = Len(col_data)
    /\ bk_pc' = "done"
    /\ UNCHANGED <<range_spec, buckets, bk_flags, col_data, boundaries, brackets,
                   nan_idx, bucket_indices, bk_error>>
    /\ BkFrame

BkNext ==
    BkReject \/ BkAccept \/ BkBuildFail \/ BkBuild \/ BkAssignCell \/ BkReturn

----------------------------------------------------------------------------
(* Disk cache (storage/cache.py, DiskCache), as the specification describes *)
(* it: entries keyed by logical path, a TTL checked lazily on get and a     *)
(* byte cap enforced by LRU eviction on put.                                *)

TtlSeconds == 1
MaxSizeBytes == 2
MaxTime == 2

Keys == {"A", "B", "C"}

\* The tables a caller may put: a content and the size of its serialized
\* form, which may be small, fill the cap or exceed it.
Tables == [val : {1, 2}, size : {1, MaxSizeBytes, MaxSizeBytes + 1}]

\* The file written for a table, and the table read back from a file.
Serialize(table) == [fmt |-> "parquet", val |-> table.val, size |-> table.size]
Deserialize(payload) == [val |-> payload.val, size |-> payload.size]

\* The cache entry a put creates at time t.
NewEntry(table, t) ==
    [payload |-> Serialize(table), size_bytes |-> Serialize(table).size,
     created_at |-> t, last_accessed_at |-> t]

\* A new entry that keeps the payload already stored under the key.
DcStoreKeepsOld(ents, key, table, t) ==
    IF key \in DOMAIN ents
    THEN [j \in DOMAIN ents |->
            IF j = key THEN [ents[key] EXCEPT !.created_at = t, !.last_accessed_at = t]
            ELSE ents[j]]
    ELSE [j \in DOMAIN ents \cup {key} |->
            IF j = key THEN NewEntry(table, t) ELSE ents[j]]

\* The entry map after storing table under key at time t.
DcStore(ents, key, table, t) ==
    [j \in DOMAIN ents \cup {key} |-> IF j = key THEN NewEntry(table, t) ELSE ents[j]]

\* The entry map without key.
DcRemove(ents, key) == [j \in DOMAIN ents \ {key} |-> ents[j]]

\* A sequence without the element k.
SeqWithout(ord, k) == SelectSeq(ord, LAMBDA x : x # k)

RECURSIVE DcSum(_, _)
DcSum(ents, S) ==
    IF S = {} THEN 0
    ELSE LET k == CHOOSE x \in S : TRUE
         IN ents[k].size_bytes + DcSum(ents, S \ {k})

\* Total resident size_bytes.
DcTotal(ents) == DcSum(ents, DOMAIN ents)

\* An entry at least TTL old counts as expired.
DcExpiredAtTtl(e, t) == t - e.created_at >= TtlSeconds

\* The TTL is exceeded at time t.
DcExpired(e, t) == t - e.created_at > TtlSeconds

\* The position of key k in the insertion order.
DcPos(ord, k) == CHOOSE p \in 1..Len(ord) : ord[p] = k

\* First in, first out: a precedes b when it was inserted earlier.
DcOlderFifo(ents, ord, a, b) == DcPos(ord, a) < DcPos(ord, b)

\* a is evicted before b: less recently accessed, or equally recently
\* accessed and inserted earlier.
DcOlder(ents, ord, a, b) ==
    \/ ents[a].last_accessed_at < ents[b].last_accessed_at
    \/ /\ ents[a].last_accessed_at = ents[b].last_accessed_at
       /\ DcPos(ord, a) < DcPos(ord, b)

\* The next entry to evict among cands.
DcVictim(ents, ord, cands) ==
    CHOOSE a \in cands : \A b \in cands \ {a} : DcOlder(ents, ord, a, b)

\* Eviction that spares no entry: the least recently used entry goes, the
\* one just stored included, until the cap is satisfied.
RECURSIVE DcEvictAny(_, _, _, _)
DcEvictAny(ents, ord, keep, gone) ==
    IF DcTotal(ents) <= MaxSizeBytes \/ DOMAIN ents = {}
    THEN [entries |-> ents, order |-> ord, removed |-> gone]
    ELSE LET v == DcVictim(ents, ord, DOMAIN ents)
         IN DcEvictAny(DcRemove(ents, v), SeqWithout(ord, v), keep, Append(gone, v))

\* Eviction that stops after one victim.
DcEvictOnce(ents, ord, keep, gone) ==
    IF DcTotal(ents) <= MaxSizeBytes \/ DOMAIN ents \ {keep} = {}
    THEN [entries |-> ents, order |-> ord, removed |-> gone]
    ELSE LET v == DcVictim(ents, ord, DOMAIN ents \ {keep})
         IN [entries |-> DcRemove(ents, v), order |-> SeqWithout(ord, v),
             removed |-> Append(gone, v)]

\* Synchronous LRU eviction after a put of keep: entries other than keep are
\* evicted, least recently accessed first, until the cap is satisfied or
\* only keep remains.  gone lists the evicted keys in eviction order.
RECURSIVE DcEvict(_, _, _, _)
DcEvict(ents, ord, keep, gone) ==
    IF DcTotal(ents) <= MaxSizeBytes \/ DOMAIN ents \ {keep} = {}
    THEN [entries |-> ents, order |-> ord, removed |-> gone]
    ELSE LET v == DcVictim(ents, ord, DOMAIN ents \ {keep})
         IN DcEvict(DcRemove(ents, v), SeqWithout(ord, v), keep, Append(gone, v))

\* invalidate reports success whatever it found.
DcWasPresentAlways(ents, key) == TRUE

\* The result of invalidate.
DcWasPresent(ents, key) == key \in DOMAIN ents

\* What the last operation was and what it returned.
DcResult(op, key, hit, table, flag, removed) ==
    [op |-> op, key |-> key, hit |-> hit, table |-> table, flag |-> flag,
     removed |-> removed, entries |-> 0, total_size_bytes |-> 0, ttl_seconds |-> 0]

NoTable == [val |-> 0, size |-> 0]

NoOp == DcResult("none", "", FALSE, NoTable, FALSE, <<>>)

\* The scenario monitor: how far the run since the cache was last empty has
\* followed  put a, put b, get a (hit), put c  with three distinct keys and
\* tables of one size; strict tells whether get a read a later clock value
\* than put b.  step -1: the run has left the scenario.
ScenStart == [step |-> 0, a |-> "", b |-> "", size |-> 0, strict |-> FALSE]
ScenOff == [step |-> -1, a |-> "", b |-> "", size |-> 0, strict |-> FALSE]

ScenAfterPut(sc, key, table) ==
    IF sc.step = 0 THEN [sc EXCEPT !.step = 1, !.a = key, !.size = table.size]
    ELSE IF sc.step = 1 /\ key # sc.a /\ table.size = sc.size
        THEN [sc EXCEPT !.step = 2, !.b = key]
    ELSE IF sc.step = 3 /\ key \notin {sc.a, sc.b} /\ table.size = sc.size
        THEN [sc EXCEPT !.step = 4]
    ELSE ScenOff

ScenAfterGet(sc, key, hit, later) ==
    IF sc.step = 2 /\ key = sc.a /\ hit
    THEN [sc EXCEPT !.step = 3, !.strict = later]
    ELSE ScenOff

DcInit ==
    /\ entries = <<>>
    /\ order = <<>>
    /\ now = 0
    /\ dc_op = NoOp
    /\ put_log = <<>>
    /\ scen = ScenStart
    /\ TwIdle
    /\ BkIdle
    /\ CcIdle
    /\ EwIdle
    /\ SessIdle
    /\ WtIdle
    /\ ClIdle
    /\ CmIdle

\* The clock advances between operations (it need not: two operations may
\* read the same timestamp).
DcTick ==
    /\ now < MaxTime
    /\ now' = now + 1
    /\ UNCHANGED <<entries, order, dc_op, put_log, scen>>
    /\ DcFrame

\* put(key, table): store the entry, then evict.
DcPut(key, table) ==
    /\ LET after == DcEvict(DcStore(entries, key, table, now),
                            Append(SeqWithout(order, key), key), key, <<>>)
       IN /\ entries' = after.entries
          /\ order' = after.order
          /\ dc_op' = DcResult("put", key, FALSE, NoTable, FALSE, after.removed)
          /\ put_log' = [j \in DOMAIN after.entries |->
                            IF j = key THEN table ELSE put_log[j]]
    /\ scen' = ScenAfterPut(scen, key, table)
    /\ UNCHANGED now
    /\ DcFrame

\* get(key): a miss for an absent key; a miss that drops the entry when its
\* TTL is exceeded; otherwise a hit that refreshes last_accessed_at.
DcGet(key) ==
    /\ IF key \notin DOMAIN entries
       THEN /\ dc_op' = DcResult("get", key, FALSE, NoTable, FALSE, <<>>)
            /\ scen' = ScenAfterGet(scen, key, FALSE, FALSE)
            /\ UNCHANGED <<entries, order, put_log>>
       ELSE IF DcExpired(entries[key], now)
       THEN /\ entries' = DcRemove(entries, key)
            /\ order' = SeqWithout(order, key)
            /\ put_log' = DcRemove(put_log, key)
            /\ dc_op' = DcResult("get", key, FALSE, NoTable, FALSE, <<key>>)
            /\ scen' = ScenAfterGet(scen, key, FALSE, FALSE)
       ELSE /\ entries' = [entries EXCEPT ![key].last_accessed_at = now]
            /\ dc_op' = DcResult("get", key, TRUE,
                                  Deserialize(entries[key].payload), FALSE, <<>>)
            /\ scen' = ScenAfterGet(scen, key, TRUE,
                                    scen.step = 2 /\ now > entries[scen.b].last_accessed_at)
            /\ UNCHANGED <<order, put_log>>
    /\ UNCHANGED now
    /\ DcFrame

\* invalidate(key) -> Bool (was present).
DcInvalidate(key) ==
    /\ entries' = DcRemove(entries, key)
    /\ order' = SeqWithout(order, key)
    /\ put_log' = DcRemove(put_log, key)
    /\ dc_op' = DcResult("invalidate", key, FALSE, NoTable, DcWasPresent(entries, key),
                          IF key \in DOMAIN entries THEN <<key>> ELSE <<>>)
    /\ scen' = ScenOff
    /\ UNCHANGED now
    /\ DcFrame

\* clear(): every entry is destroyed.
DcClear ==
    /\ entries' = <<>>
    /\ order' = <<>>
    /\ put_log' = <<>>
    /\ dc_op' = DcResult("clear", "", FALSE, NoTable, FALSE, order)
    /\ scen' = ScenStart
    /\ UNCHANGED now
    /\ DcFrame

\* stats() -> {entries, total_size_bytes, ttl_seconds}.
DcStats ==
    /\ dc_op' = [DcResult("stats", "", FALSE, NoTable, FALSE, <<>>) EXCEPT
                    !.entries = Cardinality(DOMAIN entries),
                    !.total_size_bytes = DcTotal(entries),
                    !.ttl_seconds = TtlSeconds]
    /\ scen' = ScenOff
    /\ UNCHANGED <<entries, order, now, put_log>>
    /\ DcFrame

DcNext ==
    \/ DcTick
    \/ \E key \in Keys, table \in Tables : DcPut(key, table)
    \/ \E key \in Keys : DcGet(key)
    \/ \E key \in Keys : DcInvalidate(key)
    \/ DcClear
    \/ DcStats

----------------------------------------------------------------------------
(* Disk cache under concurrent callers.  Every public operation takes the  *)
(* cache lock, touches the files, then the in-memory index, and releases   *)
(* the lock.  The clock stands still: TTL expiry is SpecCache's subject.   *)

NumThreads == 2

Threads == 1..NumThreads

\* The tables the threads put: those that fit under the cap on their own.
CcTables == {tb \in Tables : tb.val = 1 /\ tb.size <= MaxSizeBytes}

\* The calls a thread may issue.
CcCalls ==
    [op : {"put"}, key : Keys, table : CcTables]
        \cup [op : {"get", "invalidate"}, key : Keys, table : {NoTable}]
        \cup [op : {"clear", "stats"}, key : {""}, table : {NoTable}]

NoCall == [op |-> "none", key |-> "", table |-> NoTable]

\* What a thread read from the files in its first step.
NoRead == [found |-> FALSE, entry |-> NewEntry(NoTable, 0), count |-> 0]

CcReturn(call, hit, table, flag) == DcResult(call.op, call.key, hit, table, flag, <<>>)

CcStats(call, count, total) ==
    [CcReturn(call, FALSE, NoTable, FALSE) EXCEPT
        !.entries = count, !.total_size_bytes = total, !.ttl_seconds = TtlSeconds]

\* One call applied to the cache (ents, ord) in a single step at time t:
\* the cache afterwards and what the call returns.
CcSeq(call, ents, ord, t) ==
    IF call.op = "put"
    THEN LET after == DcEvict(DcStore(ents, call.key, call.table, t),
                              Append(SeqWithout(ord, call.key), call.key),
                              call.key, <<>>)
         IN [entries |-> after.entries, order |-> after.order,
             result |-> CcReturn(call, FALSE, NoTable, FALSE)]
    ELSE IF call.op = "get"
    THEN IF call.key \notin DOMAIN ents
         THEN [entries |-> ents, order |-> ord,
               result |-> CcReturn(call, FALSE, NoTable, FALSE)]
         ELSE IF DcExpired(ents[call.key], t)
         THEN [entries |-> DcRemove(ents, call.key),
               order |-> SeqWithout(ord, call.key),
               result |-> CcReturn(call, FALSE, NoTable, FALSE)]
         ELSE [entries |-> [ents EXCEPT ![call.key].last_accessed_at = t],
               order |-> ord,
               result |-> CcReturn(call, TRUE,
                                   Deserialize(ents[call.key].payload), FALSE)]
    ELSE IF call.op = "invalidate"
    THEN [entries |-> DcRemove(ents, call.key),
          order |-> SeqWithout(ord, call.key),
          result |-> CcReturn(call, FALSE, NoTable, DcWasPresent(ents, call.key))]
    ELSE IF call.op = "clear"
    THEN [entries |-> <<>>, order |-> <<>>,
          result |-> CcReturn(call, FALSE, NoTable, FALSE)]
    ELSE [entries |-> ents, order |-> ord,
          result |-> CcStats(call, Cardinality(DOMAIN ents), DcTotal(ents))]

\* The lock is taken whoever holds it.
CcLockIgnored(l) == TRUE

\* The lock can be taken.
CcLockFree(l) == l = 0

\* The keys of the index.
CcIndexed(ord) == {ord[p] : p \in 1..Len(ord)}

CcBusy(t) == threads[t].pc \in {"file", "index", "unlock"}

CcInit ==
    /\ threads = [t \in Threads |->
                    [pc |-> "idle", call |-> NoCall, read |-> NoRead,
                     result |-> NoOp, expect |-> NoOp, raised |-> FALSE]]
    /\ lock = 0
    /\ lin = [entries |-> <<>>, order |-> <<>>]
    /\ DcIdle
    /\ TwIdle
    /\ BkIdle
    /\ EwIdle
    /\ SessIdle
    /\ WtIdle
    /\ ClIdle
    /\ CmIdle

\* A thread issues a call and waits for the lock.
CcCall(t, call) ==
    /\ threads[t].pc = "idle"
    /\ threads' = [threads EXCEPT ![t].pc = "waiting", ![t].call = call]
    /\ UNCHANGED <<entries, order, lock, lin>>
    /\ CcFrame

\* The thread takes the lock; its call takes its place after the calls of
\* the threads that held the lock before.
CcAcquire(t) ==
    /\ threads[t].pc = "waiting"
    /\ CcLockFree(lock)
    /\ lock' = t
    /\ LET seq == CcSeq(threads[t].call, lin.entries, lin.order, now)
       IN /\ lin' = [entries |-> seq.entries, order |-> seq.order]
          /\ threads' = [threads EXCEPT ![t].pc = "file", ![t].expect = seq.result]
    /\ UNCHANGED <<entries, order>>
    /\ CcFrame

\* First step under the lock: the files.  put writes the entry's file,
\* invalidate and clear delete files, get and stats read.
CcFile(t) ==
    /\ threads[t].pc = "file"
    /\ LET call == threads[t].call
       IN \/ /\ call.op = "put"
             /\ entries' = DcStore(entries, call.key, call.table, now)
             /\ threads' = [threads EXCEPT ![t].pc = "index"]
          \/ /\ call.op = "get"
             /\ threads' = [threads EXCEPT
                              ![t].pc = "index",
                              ![t].read = IF call.key \in DOMAIN entries
                                          THEN [found |-> TRUE,
                                                entry |-> entries[call.key],
                                                count |-> 0]
                                          ELSE NoRead]
             /\ UNCHANGED entries
          \/ /\ call.op = "invalidate"
             /\ entries' = DcRemove(entries, call.key)
             /\ threads' = [threads EXCEPT
                              ![t].pc = "index",
                              ![t].read = [NoRead EXCEPT
                                             !.found = DcWasPresent(entries, call.key)]]
          \/ /\ call.op = "clear"
             /\ entries' = <<>>
             /\ threads' = [threads EXCEPT ![t].pc = "index"]
          \/ /\ call.op = "stats"
             /\ threads' = [threads EXCEPT
                              ![t].pc = "index",
                              ![t].read = [NoRead EXCEPT
                                             !.count = Cardinality(DOMAIN entries)]]
             /\ UNCHANGED entries
    /\ UNCHANGED <<order, lock, lin>>
    /\ CcFrame

\* Second step under the lock: the index.  put records the key and evicts,
\* get refreshes or drops the entry it read, invalidate and clear forget
\* keys, stats adds up the sizes.  An operation raises when the files and
\* the index no longer agree about its key.
CcIndex(t) ==
    /\ threads[t].pc = "index"
    /\ LET call == threads[t].call
           read == threads[t].read
           done(res) == [threads EXCEPT ![t].pc = "unlock", ![t].result = res]
           fail == [threads EXCEPT ![t].pc = "unlock", ![t].raised = TRUE]
       IN \/ /\ call.op = "put"
             /\ LET ord1 == Append(SeqWithout(order, call.key), call.key)
                IN IF CcIndexed(ord1) # DOMAIN entries
                   THEN /\ order' = ord1
                        /\ threads' = fail
                        /\ UNCHANGED entries
                   ELSE LET after == DcEvict(entries, ord1, call.key, <<>>)
                        IN /\ entries' = after.entries
                           /\ order' = after.order
                           /\ threads' = done(CcReturn(call, FALSE, NoTable, FALSE))
          \/ /\ call.op = "get"
             /\ IF ~read.found
                THEN /\ threads' = done(CcReturn(call, FALSE, NoTable, FALSE))
                     /\ UNCHANGED <<entries, order>>
                ELSE IF call.key \notin DOMAIN entries
                THEN /\ threads' = fail
                     /\ UNCHANGED <<entries, order>>
                ELSE IF DcExpired(read.entry, now)
                THEN /\ entries' = DcRemove(entries, call.key)
                     /\ order' = SeqWithout(order, call.key)
                     /\ threads' = done(CcReturn(call, FALSE, NoTable, FALSE))
                ELSE /\ entries' = [entries EXCEPT ![call.key].last_accessed_at = now]
                     /\ threads' = done(CcReturn(call, TRUE,
                                                 Deserialize(read.entry.payload), FALSE))
                     /\ UNCHANGED order
          \/ /\ call.op = "invalidate"
             /\ order' = SeqWithout(order, call.key)
             /\ threads' = done(CcReturn(call, FALSE, NoTable, read.found))
             /\ UNCHANGED entries
          \/ /\ call.op = "clear"
             /\ order' = <<>>
             /\ threads' = done(CcReturn(call, FALSE, NoTable, FALSE))
             /\ UNCHANGED entries
          \/ /\ call.op = "stats"
             /\ threads' = done(CcStats(call, read.count, DcTotal(entries)))
             /\ UNCHANGED <<entries, order>>
    /\ UNCHANGED <<lock, lin>>
    /\ CcFrame

\* The thread releases the lock and returns.
CcRelease(t) ==
    /\ threads[t].pc = "unlock"
    /\ lock' = 0
    /\ threads' = [threads EXCEPT ![t].pc = "done"]
    /\ UNCHANGED <<entries, order, lin>>
    /\ CcFrame

CcNext ==
    \/ \E t \in Threads, call \in CcCalls : CcCall(t, call)
    \/ \E t \in Threads : CcAcquire(t)
    \/ \E t \in Threads : CcFile(t)
    \/ \E t \in Threads : CcIndex(t)
    \/ \E t \in Threads : CcRelease(t)

----------------------------------------------------------------------------
(* Float arithmetic on cells, as polars evaluates it: a null operand gives *)
(* null, otherwise IEEE 754 with the finite values kept exact as reduced   *)
(* fractions.                                                              *)

RECURSIVE Gcd(_, _)
Gcd(a, b) == IF b = 0 THEN a ELSE Gcd(b, a % b)

Abs(n) == IF n < 0 THEN -n ELSE n

\* The finite float n / d (d # 0), reduced, the sign on the numerator.
Frac(n, d) ==
    LET g == Gcd(Abs(n), Abs(d))
        s == IF d < 0 THEN -1 ELSE 1
    IN [k |-> "num", v |-> s * (n \div g), d |-> Abs(d) \div g]

\* The float of an integer.
Flt(n) == Frac(n, 1)

IsNum(c) == c.k = "num"
IsInf(c) == c.k \in {"ninf", "pinf"}

\* -1, 0 or 1 for a finite or infinite float.
SignOf(c) ==
    CASE c.k = "pinf" -> 1
      [] c.k = "ninf" -> -1
      [] c.k = "num" -> IF c.v > 0 THEN 1 ELSE IF c.v < 0 THEN -1 ELSE 0

InfOf(s) == IF s > 0 THEN PosInf ELSE NegInf

CellNeg(a) ==
    CASE a.k = "num" -> Frac(-a.v, a.d)
      [] a.k = "pinf" -> NegInf
      [] a.k = "ninf" -> PosInf
      [] OTHER -> a

CellAbs(a) ==
    CASE a.k = "num" -> Frac(Abs(a.v), a.d)
      [] a.k = "ninf" -> PosInf
      [] OTHER -> a

CellAdd(a, b) ==
    CASE a = Null \/ b = Null -> Null
      [] a = NaN \/ b = NaN -> NaN
      [] IsInf(a) /\ IsInf(b) -> IF a = b THEN a ELSE NaN
      [] IsInf(a) -> a
      [] IsInf(b) -> b
      [] OTHER -> Frac(a.v * b.d + b.v * a.d, a.d * b.d)

CellSub(a, b) == CellAdd(a, CellNeg(b))

CellMul(a, b) ==
    CASE a = Null \/ b = Null -> Null
      [] a = NaN \/ b = NaN -> NaN
      [] IsInf(a) \/ IsInf(b) ->
            IF SignOf(a) * SignOf(b) = 0 THEN NaN ELSE InfOf(SignOf(a) * SignOf(b))
      [] OTHER -> Frac(a.v * b.v, a.d * b.d)

\* True division.
CellDiv(a, b) ==
    CASE a = Null \/ b = Null -> Null
      [] a = NaN \/ b = NaN -> NaN
      [] IsInf(a) /\ IsInf(b) -> NaN
      [] IsInf(a) -> InfOf(SignOf(a) * (IF SignOf(b) < 0 THEN -1 ELSE 1))
      [] IsInf(b) -> Flt(0)
      [] b.v = 0 -> IF a.v = 0 THEN NaN ELSE InfOf(SignOf(a))
      [] OTHER -> Frac(a.v * b.d, a.d * b.v)

\* IEEE comparisons of non-null floats (false when either is NaN).
FltLt(a, b) ==
    CASE a = NaN \/ b = NaN -> FALSE
      [] a.k = "ninf" -> b.k # "ninf"
      [] a.k = "pinf" -> FALSE
      [] b.k = "ninf" -> FALSE
      [] b.k = "pinf" -> TRUE
      [] OTHER -> a.v * b.d < b.v * a.d

FltEq(a, b) == a # NaN /\ b # NaN /\ a = b

\* fill_null(value).
FillNull(a, value) == IF a = Null THEN value ELSE a

----------------------------------------------------------------------------
(* Elementwise operators (operators/arithmetic.py) and trade_when on whole *)
(* tables.  A wide table is its date column, the names of its value        *)
(* columns in order, and one list of cells per value column.               *)

MaxArgs == 3

NoFrame == [dates |-> <<>>, cols |-> <<>>, cells |-> <<>>]

Rows(t) == Len(t.dates)

\* _get_value_cols(df), as a set.
ColSet(t) == {t.cols[j] : j \in 1..Len(t.cols)}

ValueError == "ValueError"
ColumnNotFoundError == "polars.ColumnNotFoundError"
ShapeError == "polars.ShapeError"

EwOk(t) == [err |-> "", table |-> t]
EwErr(e) == [err |-> e, table |-> NoFrame]

\* The cell of column c at row i; a one-row column stands for every row
\* when polars broadcasts it.
EwCellAt(t, c, i) == IF Rows(t) = 1 THEN t.cells[c][1] ELSE t.cells[c][i]

EwMaxRows(args) ==
    CHOOSE n \in {Rows(args[j]) : j \in 1..Len(args)} :
        \A j \in 1..Len(args) : Rows(args[j]) <= n

\* args[0].select(date, F(df[c] for df in args) for c in value_cols): the
\* columns are looked up by name in every table (a missing name raises, a
\* further column is ignored) and combined by position; the dates are those
\* of args[0].  Columns of different lengths raise, except that polars may
\* broadcast a column of one row, depending on its version.
EwZipAll(args, F(_)) ==
    LET x == args[1]
        n == EwMaxRows(args)
        zipped(dates) ==
            [dates |-> dates, cols |-> x.cols,
             cells |-> [c \in ColSet(x) |->
                          [i \in 1..n |->
                             F([j \in 1..Len(args) |-> EwCellAt(args[j], c, i)])]]]
    IN IF \E j \in 2..Len(args) : ~(ColSet(x) \subseteq ColSet(args[j]))
       THEN {EwErr(ColumnNotFoundError)}
       ELSE IF \A j \in 1..Len(args) : Rows(args[j]) = Rows(x)
       THEN {EwOk(zipped(x.dates))}
       ELSE IF \A j \in 1..Len(args) : Rows(args[j]) \in {1, n}
       THEN {EwErr(ShapeError),
             EwOk(zipped([i \in 1..n |-> IF Rows(x) = 1 THEN x.dates[1] ELSE x.dates[i]]))}
       ELSE {EwErr(ShapeError)}

EwZip(x, y, F(_, _)) == EwZipAll(<<x, y>>, LAMBDA s : F(s[1], s[2]))

\* x.select(date, F(pl.col(c)) for c in value_cols).
EwMap(x, F(_)) ==
    [dates |-> x.dates, cols |-> x.cols,
     cells |-> [c \in ColSet(x) |-> [i \in 1..Rows(x) |-> F(x.cells[c][i])]]]

\* One cell of add / subtract / multiply; filter fills nulls first.
AddCell(a, b, filter) ==
    IF filter THEN CellAdd(FillNull(a, Flt(0)), FillNull(b, Flt(0))) ELSE CellAdd(a, b)

SubtractCell(a, b, filter) ==
    IF filter THEN CellSub(FillNull(a, Flt(0)), FillNull(b, Flt(0))) ELSE CellSub(a, b)

\* filter fills nulls with 0 before multiplying.
MultiplyCellFillZero(a, b, filter) ==
    IF filter THEN CellMul(FillNull(a, Flt(0)), FillNull(b, Flt(0))) ELSE CellMul(a, b)

MultiplyCell(a, b, filter) ==
    IF filter THEN CellMul(FillNull(a, Flt(1)), FillNull(b, Flt(1))) ELSE CellMul(a, b)

\* Division without the guard on the denominator.
DivideCellUnguarded(a, b) == CellDiv(a, b)

\* pl.when(y != 0).then(x / y).otherwise(None): a null condition counts as
\* false.
DivideCell(a, b) ==
    IF b # Null /\ ~FltEq(b, Flt(0)) THEN CellDiv(a, b) ELSE Null

\* pl.when(x != 0).then(1.0 / x).otherwise(None).
InverseCell(a) ==
    IF a # Null /\ ~FltEq(a, Flt(0)) THEN CellDiv(Flt(1), a) ELSE Null

\* How polars compares NaN with a number: IEEE (every comparison false) or
\* its total order (NaN above every number), depending on its version.
NanModes == {"ieee", "total"}

GtZeroExpr(a, mode) == a # Null /\ (FltLt(Flt(0), a) \/ (a = NaN /\ mode = "total"))

GeZeroExpr(a, mode) == GtZeroExpr(a, mode) \/ FltEq(a, Flt(0))

\* ln of a float that passed the guard: exact where it is rational, a
\* symbolic value ln(v/d) elsewhere.
LogOf(a) ==
    CASE a = NaN -> NaN
      [] a = PosInf -> PosInf
      [] a = Flt(1) -> Flt(0)
      [] OTHER -> [k |-> "ln", v |-> a.v, d |-> a.d]

LogCell(a, mode) == IF GtZeroExpr(a, mode) THEN LogOf(a) ELSE Null

\* The integer square root of a perfect square, -1 otherwise.
IntSqrt(n) ==
    IF \E r \in 0..n : r * r = n THEN CHOOSE r \in 0..n : r * r = n ELSE -1

SqrtOf(a) ==
    CASE a = NaN -> NaN
      [] a = PosInf -> PosInf
      [] IntSqrt(a.v) >= 0 /\ IntSqrt(a.d) >= 0 -> Frac(IntSqrt(a.v), IntSqrt(a.d))
      [] OTHER -> [k |-> "sqrt", v |-> a.v, d |-> a.d]

\* The guard x > 0 in place of x >= 0.
SqrtCellPositive(a, mode) == IF GtZeroExpr(a, mode) THEN SqrtOf(a) ELSE Null

\* pl.when(x >= 0).then(x.sqrt()).otherwise(None).
SqrtCell(a, mode) == IF GeZeroExpr(a, mode) THEN SqrtOf(a) ELSE Null

\* x.pow(y) on the cells the model supplies: null, or an integer base with a
\* natural exponent.
CellPow(a, b) ==
    CASE a = Null \/ b = Null -> Null
      [] a.k = "num" /\ b.k = "num" /\ a.d = 1 /\ b.d = 1 /\ b.v >= 0 -> Flt(a.v ^ b.v)

\* x.sign() * x.abs().pow(y).
SignedPowCell(a, b) ==
    IF a = Null THEN Null ELSE CellMul(Flt(SignOf(a)), CellPow(CellAbs(a), b))

\* The cell of the first table, whatever the others hold.
MaxCellFirst(s) == s[1]

\* max_horizontal / min_horizontal of null-or-finite cells: nulls are
\* skipped, all nulls give null.
MaxCell(s) ==
    LET vals == {s[j] : j \in 1..Len(s)} \ {Null}
    IN IF vals = {} THEN Null
       ELSE CHOOSE m \in vals : \A o \in vals : ~FltLt(m, o)

MinCell(s) ==
    LET vals == {s[j] : j \in 1..Len(s)} \ {Null}
    IN IF vals = {} THEN Null
       ELSE CHOOSE m \in vals : \A o \in vals : ~FltLt(o, m)

\* The loop `for df in args[1:]` of add: the outcomes of folding args[i..]
\* into result.
RECURSIVE AddFrom(_, _, _, _)
AddFrom(result, args, i, filter) ==
    IF i > Len(args) THEN {EwOk(result)}
    ELSE UNION {IF o.err # "" THEN {o} ELSE AddFrom(o.table, args, i + 1, filter) :
                  o \in EwZip(result, args[i], LAMBDA a, b : AddCell(a, b, filter))}

RECURSIVE MultiplyFrom(_, _, _, _)
MultiplyFrom(result, args, i, filter) ==
    IF i > Len(args) THEN {EwOk(result)}
    ELSE UNION {IF o.err # "" THEN {o} ELSE MultiplyFrom(o.table, args, i + 1, filter) :
                  o \in EwZip(result, args[i], LAMBDA a, b : MultiplyCell(a, b, filter))}

\* One value column of trade_when from row i on.
RECURSIVE TwColumn(_, _, _, _, _)
TwColumn(trig, alph, exit_v, i, prev) ==
    IF i > Len(trig) THEN <<>>
    ELSE LET b == TwBranch(trig[i], exit_v[i])
         IN <<TwOutput(b, alph[i], prev)>>
                \o TwColumn(trig, alph, exit_v, i + 1, TwCarry(b, alph[i], prev))

\* trade_when on tables (transformational.py:150-182): per column of
\* trigger, alpha[c] and exit_trigger[c] are looked up by name, then read
\* at the row numbers of trigger.
TradeWhenOutcome(trigger, alpha, exit_trigger) ==
    LET has(c) == c \in ColSet(alpha) /\ c \in ColSet(exit_trigger)
        short == Rows(trigger) > Rows(alpha) \/ Rows(trigger) > Rows(exit_trigger)
    IN IF trigger.cols = <<>> THEN EwOk(trigger)
       ELSE IF ~has(trigger.cols[1]) THEN EwErr(ColumnNotFoundError)
       ELSE IF short THEN EwErr(IndexError)
       ELSE IF \E c \in ColSet(trigger) : ~has(c) THEN EwErr(ColumnNotFoundError)
       ELSE EwOk([dates |-> trigger.dates, cols |-> trigger.cols,
                  cells |-> [c \in ColSet(trigger) |->
                               TwColumn(trigger.cells[c], alpha.cells[c],
                                        exit_trigger.cells[c], 1, Null)]])

\* The cells of the one-cell tables.
EwCells == {Null, NaN, NegInf, PosInf, Flt(-2), Flt(0), Flt(1), Flt(4), Frac(1, 2)}

\* A table of one date and one value column.
Cell1(c) == [dates |-> <<1>>, cols |-> <<"a">>, cells |-> [n \in {"a"} |-> <<c>>]]

\* A table of positive integers with the given dates and columns; a column
\* holds the same values in whatever table and position it occurs.
EwFrame(dates, cols) ==
    [dates |-> dates, cols |-> cols,
     cells |-> [c \in {cols[j] : j \in 1..Len(cols)} |->
                  [i \in 1..Len(dates) |->
                     Flt(i + (IF c = "a" THEN 0 ELSE IF c = "b" THEN 1 ELSE 2))]]]

EwBase == EwFrame(<<1, 2>>, <<"a", "b">>)

\* Second tables for EwBase: the same shape, other dates, more rows, one
\* row, a column missing, a column more, the columns in another order.
EwShapeTables ==
    {EwBase,
     EwFrame(<<1, 3>>, <<"a", "b">>),
     EwFrame(<<1, 2, 3>>, <<"a", "b">>),
     EwFrame(<<1>>, <<"a", "b">>),
     EwFrame(<<1, 2>>, <<"a">>),
     EwFrame(<<1, 2>>, <<"a", "b", "c">>),
     EwFrame(<<1, 2>>, <<"b", "a">>)}

EwUnaryOps == {"inverse", "log", "sqrt"}
EwFilterOps == {"add", "subtract", "multiply"}
EwBinaryOps == {"add", "subtract", "multiply", "divide", "power", "signed_power"}
EwVariadicOps == {"add", "multiply", "max", "min"}

EwInit ==
    /\ \/ /\ ew_op \in EwUnaryOps
          /\ \E c \in EwCells : ew_args = <<Cell1(c)>>
          /\ ew_filter = FALSE
       \/ /\ ew_op \in EwFilterOps
          /\ \E a, b \in EwCells : ew_args = <<Cell1(a), Cell1(b)>>
          /\ ew_filter \in BOOLEAN
       \/ /\ ew_op = "divide"
          /\ \E a, b \in EwCells : ew_args = <<Cell1(a), Cell1(b)>>
          /\ ew_filter = FALSE
       \/ /\ ew_op \in EwBinaryOps \cup {"max", "min"}
          /\ \E y \in EwShapeTables : ew_args = <<EwBase, y>>
          /\ ew_filter = FALSE
       \/ /\ ew_op = "trade_when"
          /\ \E y, z \in EwShapeTables : ew_args = <<EwBase, y, z>>
          /\ ew_filter = FALSE
       \/ /\ ew_op \in EwVariadicOps
          /\ \E n \in 0..MaxArgs :
                ew_args \in [1..n -> {Cell1(Null), Cell1(Flt(1)), Cell1(Flt(4))}]
          /\ ew_filter \in (IF ew_op \in EwFilterOps THEN BOOLEAN ELSE {FALSE})
    /\ ew_result = NoFrame
    /\ ew_error = ""
    /\ ew_pc = "call"
    /\ TwIdle
    /\ BkIdle
    /\ DcIdle
    /\ CcIdle
    /\ SessIdle
    /\ WtIdle
    /\ ClIdle
    /\ CmIdle

\* The call ends with outcome o: a raise or a returned table.
EwEnd(o) ==
    /\ ew_error' = o.err
    /\ ew_result' = o.table
    /\ ew_pc' = IF o.err = "" THEN "done" ELSE "raised"
    /\ UNCHANGED <<ew_op, ew_args, ew_filter>>
    /\ EwFrame1

\* add(*args, filter) (arithmetic.py:33-64).
EwAdd ==
    /\ ew_pc = "call"
    /\ ew_op = "add"
    /\ \E o \in (IF Len(ew_args) < 2 THEN {EwErr(ValueError)}
                 ELSE AddFrom(ew_args[1], ew_args, 2, ew_filter)) : EwEnd(o)

\* subtract(x, y, filter) (arithmetic.py:67-92).
EwSubtract ==
    /\ ew_pc = "call"
    /\ ew_op = "subtract"
    /\ \E o \in EwZip(ew_args[1], ew_args[2],
                      LAMBDA a, b : SubtractCell(a, b, ew_filter)) : EwEnd(o)

\* multiply(*args, filter) (arithmetic.py:95-126).
EwMultiply ==
    /\ ew_pc = "call"
    /\ ew_op = "multiply"
    /\ \E o \in (IF Len(ew_args) < 2 THEN {EwErr(ValueError)}
                 ELSE MultiplyFrom(ew_args[1], ew_args, 2, ew_filter)) : EwEnd(o)

\* divide(x, y) (arithmetic.py:129-153).
EwDivide ==
    /\ ew_pc = "call"
    /\ ew_op = "divide"
    /\ \E o \in EwZip(ew_args[1], ew_args[2], DivideCell) : EwEnd(o)

\* inverse(x) (arithmetic.py:156-179).
EwInverse ==
    /\ ew_pc = "call"
    /\ ew_op = "inverse"
    /\ EwEnd(EwOk(EwMap(ew_args[1], InverseCell)))

\* log(x) (arithmetic.py:182-205).
EwLog ==
    /\ ew_pc = "call"
    /\ ew_op = "log"
    /\ \E mode \in NanModes :
          EwEnd(EwOk(EwMap(ew_args[1], LAMBDA a : LogCell(a, mode))))

\* max(*args) (arithmetic.py:208-229).
EwMax ==
    /\ ew_pc = "call"
    /\ ew_op = "max"
    /\ \E o \in (IF Len(ew_args) < 2 THEN {EwErr(ValueError)}
                 ELSE EwZipAll(ew_args, MaxCell)) : EwEnd(o)

\* min(*args) (arithmetic.py:232-253).
EwMin ==
    /\ ew_pc = "call"
    /\ ew_op = "min"
    /\ \E o \in (IF Len(ew_args) < 2 THEN {EwErr(ValueError)}
                 ELSE EwZipAll(ew_args, MinCell)) : EwEnd(o)

\* power(x, y) (arithmetic.py:256-272).
EwPower ==
    /\ ew_pc = "call"
    /\ ew_op = "power"
    /\ \E o \in EwZip(ew_args[1], ew_args[2], CellPow) : EwEnd(o)

\* signed_power(x, y) (arithmetic.py:275-296).
EwSignedPower ==
    /\ ew_pc = "call"
    /\ ew_op = "signed_power"
    /\ \E o \in EwZip(ew_args[1], ew_args[2], SignedPowCell) : EwEnd(o)

\* sqrt(x) (arithmetic.py:299-322).
EwSqrt ==
    /\ ew_pc = "call"
    /\ ew_op = "sqrt"
    /\ \E mode \in NanModes :
          EwEnd(EwOk(EwMap(ew_args[1], LAMBDA a : SqrtCell(a, mode))))

\* trade_when(trigger, alpha, exit_trigger) (transformational.py:128-182).
EwTradeWhen ==
    /\ ew_pc = "call"
    /\ ew_op = "trade_when"
    /\ EwEnd(TradeWhenOutcome(ew_args[1], ew_args[2], ew_args[3]))

EwNext ==
    \/ EwAdd
    \/ EwSubtract
    \/ EwMultiply
    \/ EwDivide
    \/ EwInverse
    \/ EwLog
    \/ EwMax
    \/ EwMin
    \/ EwPower
    \/ EwSignedPower
    \/ EwSqrt
    \/ EwTradeWhen

----------------------------------------------------------------------------
(* AlphaSession (alpha/session.py).  The thread that owns the session      *)
(* enters and leaves it; every thread reads fields through attribute       *)
(* access, fetch() and eval().                                             *)

MaxExits == 1
MaxObjects == 2
MaxFailures == 1

\* The thread running the with block, and a worker thread.
SessThreads == {"main", "worker"}
SessOwner == "main"

\* FIELD_ALIASES (two of its names), a name that is in no mapping, and a
\* private attribute name.
SessRegistered == {"close", "volume"}
SessNames == {"close", "nope", "_x"}

SessionNotActiveError == "SessionNotActiveError"
FieldNotFoundError == "FieldNotFoundError"
DataNotFoundError == "DataNotFoundError"
AlphaParseError == "AlphaParseError"
AttributeError == "AttributeError"

\* The calls of a thread: the operation and the field names it reads in
\* order.  eval reads the variables of its expression; an expression
\* without a field variable does not parse or does not yield an Alpha.
SessCalls ==
    [op : {"getattr"}, fields : {<<n>> : n \in SessNames}]
        \cup [op : {"fetch"}, fields : {<<>>, <<"close">>, <<"close", "volume">>}]
        \cup [op : {"eval"}, fields : {<<>>, <<"close">>}]

\* The eager prefetch configured at construction: none, or one field.
SessEagerFields == {<<>>, <<"close">>}

SessIdleThread ==
    [pc |-> "idle", op |-> "none", fields |-> <<>>, ret |-> <<>>, new |-> 0,
     err |-> "", ep |-> -1]

\* The thread's call ends with exception e.
SessRaise(th, e) ==
    [th EXCEPT !.pc = "done", !.err = e, !.new = 0, !.fields = <<>>, !.ep = -1]

\* The thread has the Alpha obj for the field it is reading and goes on to
\* the next field, or returns.
SessGot(th, obj) ==
    [th EXCEPT !.ret = Append(th.ret, <<Head(th.fields), obj>>),
               !.fields = Tail(th.fields),
               !.new = 0,
               !.pc = IF Tail(th.fields) = <<>> THEN "done" ELSE "wait",
               !.ep = IF Tail(th.fields) = <<>> THEN -1 ELSE th.ep]

\* The objects returned so far in the current active period to calls that
\* passed their check in that period.
SessSeen(seen, th, name, obj) ==
    IF th.ep = s_exits THEN [seen EXCEPT ![name] = @ \cup {obj}] ELSE seen

\* One more client fetch of the field while the session is active.
SessCount(count, name) ==
    IF s_active THEN [count EXCEPT ![name] = @ + 1] ELSE count

SessZero == [n \in SessRegistered |-> 0]

SessInit ==
    /\ s_active = FALSE
    /\ s_cache = <<>>
    /\ s_lock = ""
    /\ s_eager \in SessEagerFields
    /\ s_thr = [t \in SessThreads |-> SessIdleThread]
    /\ s_exits = 0
    /\ s_next = 1
    /\ s_failed = 0
    /\ s_tried = SessZero
    /\ s_ok = SessZero
    /\ s_seen = [n \in SessRegistered |-> {}]
    /\ TwIdle
    /\ BkIdle
    /\ DcIdle
    /\ CcIdle
    /\ EwIdle
    /\ WtIdle
    /\ ClIdle
    /\ CmIdle

SessFree(t) == s_thr[t].pc \in {"idle", "done"}

\* __enter__ (228-232): the flag is set; an eager session goes on into
\* fetch(*fields).
SessEnter(t) ==
    /\ t = SessOwner
    /\ SessFree(t)
    /\ s_active' = TRUE
    /\ s_thr' = [s_thr EXCEPT ![t] =
                    IF s_eager # <<>>
                    THEN [SessIdleThread EXCEPT !.pc = "check", !.op = "fetch",
                                                !.fields = s_eager]
                    ELSE [SessIdleThread EXCEPT !.pc = "done", !.op = "enter"]]
    /\ UNCHANGED <<s_cache, s_lock, s_eager, s_exits, s_next, s_failed, s_tried,
                   s_ok, s_seen>>
    /\ SessFrame

\* __exit__, line 235: the flag is cleared.
SessExitFlag(t) ==
    /\ t = SessOwner
    /\ SessFree(t)
    /\ s_exits < MaxExits
    /\ s_active' = FALSE
    /\ s_exits' = s_exits + 1
    /\ s_tried' = SessZero
    /\ s_ok' = SessZero
    /\ s_seen' = [n \in SessRegistered |-> {}]
    /\ s_thr' = [s_thr EXCEPT ![t] = [SessIdleThread EXCEPT !.pc = "clear", !.op = "exit"]]
    /\ UNCHANGED <<s_cache, s_lock, s_eager, s_next, s_failed>>
    /\ SessFrame

\* __exit__, line 236: the cache is cleared (the lock is not taken).
SessExitClear(t) ==
    /\ s_thr[t].pc = "clear"
    /\ s_cache' = <<>>
    /\ s_thr' = [s_thr EXCEPT ![t].pc = "done"]
    /\ UNCHANGED <<s_active, s_lock, s_eager, s_exits, s_next, s_failed, s_tried,
                   s_ok, s_seen>>
    /\ SessFrame

\* A thread calls __getattr__(name), fetch(*fields) or eval(expr).
SessCall(t, call) ==
    /\ SessFree(t)
    /\ s_thr' = [s_thr EXCEPT ![t] =
                    [SessIdleThread EXCEPT
                        !.pc = IF call.op = "eval" THEN "evalcheck" ELSE "check",
                        !.op = call.op, !.fields = call.fields]]
    /\ UNCHANGED <<s_active, s_cache, s_lock, s_eager, s_exits, s_next, s_failed,
                   s_tried, s_ok, s_seen>>
    /\ SessFrame

\* eval, lines 200-206 and 213-217: the active check, then the parse; the
\* expression's variable is then read through __getattr__ (line 250).
SessEvalCheck(t) ==
    /\ s_thr[t].pc = "evalcheck"
    /\ s_thr' = [s_thr EXCEPT ![t] =
                    IF ~s_active THEN SessRaise(@, SessionNotActiveError)
                    ELSE IF @.fields = <<>> THEN SessRaise(@, AlphaParseError)
                    ELSE [@ EXCEPT !.pc = "check"]]
    /\ UNCHANGED <<s_active, s_cache, s_lock, s_eager, s_exits, s_next, s_failed,
                   s_tried, s_ok, s_seen>>
    /\ SessFrame

\* The check that lets every call through.
SessInactiveNever(active) == FALSE

\* `if not self._active` (lines 156, 175).
SessInactive(active) == ~active

\* __getattr__, lines 153-157, and fetch, lines 175-178: the checks made
\* before the lock is taken.
SessCheck(t) ==
    /\ s_thr[t].pc = "check"
    /\ s_thr' = [s_thr EXCEPT ![t] =
                    IF @.op # "fetch" /\ Head(@.fields) = "_x"
                    THEN SessRaise(@, AttributeError)
                    ELSE IF SessInactive(s_active) THEN SessRaise(@, SessionNotActiveError)
                    ELSE IF @.fields = <<>> THEN [@ EXCEPT !.pc = "done"]
                    ELSE [@ EXCEPT !.pc = "wait", !.ep = s_exits]]
    /\ UNCHANGED <<s_active, s_cache, s_lock, s_eager, s_exits, s_next, s_failed,
                   s_tried, s_ok, s_seen>>
    /\ SessFrame

\* The lock is free whoever holds it.
SessLockIgnored(l) == TRUE

SessLockFree(l) == l = ""

\* `with self._lock` and the cache lookup (159-161, 180-182): a hit returns
\* the cached Alpha and releases the lock; a miss goes on to fetch under the
\* lock.
SessAcquire(t) ==
    /\ s_thr[t].pc = "wait"
    /\ SessLockFree(s_lock)
    /\ LET name == Head(s_thr[t].fields)
       IN IF name \in DOMAIN s_cache
          THEN /\ s_thr' = [s_thr EXCEPT ![t] = SessGot(@, s_cache[name])]
               /\ s_seen' = SessSeen(s_seen, s_thr[t], name, s_cache[name])
               /\ s_lock' = ""
          ELSE /\ s_thr' = [s_thr EXCEPT ![t].pc = "fetch"]
               /\ s_lock' = t
               /\ UNCHANGED s_seen
    /\ UNCHANGED <<s_active, s_cache, s_eager, s_exits, s_next, s_failed, s_tried, s_ok>>
    /\ SessFrame

\* _fetch_field (121-127) for a name in no mapping: FieldNotFoundError
\* before any client call; the with block releases the lock.
SessFetchUnknown(t) ==
    /\ s_thr[t].pc = "fetch"
    /\ Head(s_thr[t].fields) \notin SessRegistered
    /\ s_thr' = [s_thr EXCEPT ![t] = SessRaise(@, FieldNotFoundError)]
    /\ s_lock' = ""
    /\ UNCHANGED <<s_active, s_cache, s_eager, s_exits, s_next, s_failed, s_tried,
                   s_ok, s_seen>>
    /\ SessFrame

\* The client fetch raises (client.py raises DataNotFoundError): nothing is
\* cached and the lock is released.
SessFetchFail(t) ==
    /\ s_thr[t].pc = "fetch"
    /\ Head(s_thr[t].fields) \in SessRegistered
    /\ s_failed < MaxFailures
    /\ s_failed' = s_failed + 1
    /\ s_tried' = SessCount(s_tried, Head(s_thr[t].fields))
    /\ s_thr' = [s_thr EXCEPT ![t] = SessRaise(@, DataNotFoundError)]
    /\ s_lock' = ""
    /\ UNCHANGED <<s_active, s_cache, s_eager, s_exits, s_next, s_ok, s_seen>>
    /\ SessFrame

\* The client fetch returns a table, wrapped in a new Alpha (126-127).
SessFetchOk(t) ==
    /\ s_thr[t].pc = "fetch"
    /\ Head(s_thr[t].fields) \in SessRegistered
    /\ s_next <= MaxObjects
    /\ s_next' = s_next + 1
    /\ s_tried' = SessCount(s_tried, Head(s_thr[t].fields))
    /\ s_ok' = SessCount(s_ok, Head(s_thr[t].fields))
    /\ s_thr' = [s_thr EXCEPT ![t].pc = "store", ![t].new = s_next]
    /\ UNCHANGED <<s_active, s_cache, s_lock, s_eager, s_exits, s_failed, s_seen>>
    /\ SessFrame

\* self._cache[name] = alpha, the return, and the release of the lock
\* (163-164, 185-186).
SessStore(t) ==
    /\ s_thr[t].pc = "store"
    /\ LET name == Head(s_thr[t].fields)
           obj == s_thr[t].new
       IN /\ s_cache' = [n \in DOMAIN s_cache \cup {name} |->
                           IF n = name THEN obj ELSE s_cache[n]]
          /\ s_thr' = [s_thr EXCEPT ![t] = SessGot(@, obj)]
          /\ s_seen' = SessSeen(s_seen, s_thr[t], name, obj)
    /\ s_lock' = ""
    /\ UNCHANGED <<s_active, s_eager, s_exits, s_next, s_failed, s_tried, s_ok>>
    /\ SessFrame

SessNext ==
    \/ \E t \in SessThreads : SessEnter(t)
    \/ \E t \in SessThreads : SessExitFlag(t)
    \/ \E t \in SessThreads : SessExitClear(t)
    \/ \E t \in SessThreads, call \in SessCalls : SessCall(t, call)
    \/ \E t \in SessThreads : SessEvalCheck(t)
    \/ \E t \in SessThreads : SessCheck(t)
    \/ \E t \in SessThreads : SessAcquire(t)
    \/ \E t \in SessThreads : SessFetchUnknown(t)
    \/ \E t \in SessThreads : SessFetchFail(t)
    \/ \E t \in SessThreads : SessFetchOk(t)
    \/ \E t \in SessThreads : SessStore(t)

----------------------------------------------------------------------------
(* Time-series operators (operators/time_series.py): one call of an        *)
(* operator on a wide table x with window d.                               *)

MaxTsRows == 3
MaxWindow == 4

WtOk(t) == [err |-> "", table |-> t]

WtCall == [err |-> "", table |-> NoFrame]

\* x.select(pl.col(date_col), *[F(pl.col(c)).alias(c) for c in value_cols]).
TsSelect(x, F(_)) ==
    [dates |-> x.dates, cols |-> x.cols, cells |-> [c \in ColSet(x) |-> F(x.cells[c])]]

\* The non-null cells among the last d rows up to row i.
TsWindow(col, d, i) ==
    SelectSeq(SubSeq(col, IF i - d + 1 < 1 THEN 1 ELSE i - d + 1, i), LAMBDA c : c # Null)

\* A window that may hold a single value.
TsMinSamplesOne(d) == 1

\* polars min_samples, None meaning the window size.
TsMinSamples(d) == d

\* pl.col(c).rolling_X(d): null until the window holds min_samples non-null
\* values, and Agg of the window's values after that.
TsRolling(col, d, Agg(_)) ==
    [i \in 1..Len(col) |->
        IF Len(TsWindow(col, d, i)) >= TsMinSamples(d)
        THEN Agg(TsWindow(col, d, i))
        ELSE Null]

TsSumOf(w) ==
    LET acc[i \in 1..Len(w)] == IF i = 1 THEN w[1] ELSE CellAdd(acc[i - 1], w[i])
    IN acc[Len(w)]

TsMeanOf(w) == CellDiv(TsSumOf(w), Flt(Len(w)))

TsMinOf(w) ==
    LET acc[i \in 1..Len(w)] ==
            IF i = 1 THEN w[1] ELSE IF FltLt(w[i], acc[i - 1]) THEN w[i] ELSE acc[i - 1]
    IN acc[Len(w)]

TsMaxOf(w) ==
    LET acc[i \in 1..Len(w)] ==
            IF i = 1 THEN w[1] ELSE IF FltLt(acc[i - 1], w[i]) THEN w[i] ELSE acc[i - 1]
    IN acc[Len(w)]

\* The sample variance (ddof = 1) of a window of at least two values.
TsVarOf(w) ==
    LET m == TsMeanOf(w)
        sq(a) == CellMul(CellSub(a, m), CellSub(a, m))
        acc[i \in 1..Len(w)] == IF i = 1 THEN sq(w[1]) ELSE CellAdd(acc[i - 1], sq(w[i]))
    IN CellDiv(acc[Len(w)], Flt(Len(w) - 1))

\* The standard deviation of a single value has a zero denominator; what
\* polars returns for it depends on its version.
TsStdOfOne == {Null, NaN, Flt(0)}

TsStdOf(w, one) == IF Len(w) = 1 THEN one ELSE SqrtOf(TsVarOf(w))

TsCells == {Null, Flt(1), Flt(2), Flt(4)}

\* Tables of up to MaxTsRows rows: a column a of any cells, with or without
\* a second column b that starts with a null.
TsFrame(col, two) ==
    [dates |-> [i \in 1..Len(col) |-> i],
     cols |-> IF two THEN <<"a", "b">> ELSE <<"a">>,
     cells |-> [c \in (IF two THEN {"a", "b"} ELSE {"a"}) |->
                  IF c = "a" THEN col
                  ELSE [i \in 1..Len(col) |-> IF i = 1 THEN Null ELSE Flt(i)]]]

\* A shift towards the start of the column.
TsShiftLead(col, d) ==
    [i \in 1..Len(col) |-> IF i + d <= Len(col) THEN col[i + d] ELSE Null]

\* pl.col(c).shift(d): the value d rows earlier, null where there is none.
TsShift(col, d) == [i \in 1..Len(col) |-> IF i > d THEN col[i - d] ELSE Null]

\* pl.col(c).diff(d): the difference with the value d rows earlier, null
\* where there is none or where either value is null.
TsDiff(col, d) ==
    [i \in 1..Len(col) |-> IF i > d THEN CellSub(col[i], col[i - d]) ELSE Null]

TsLagOps == {"ts_delta", "ts_delay"}

TsOps == {"ts_mean", "ts_sum", "ts_std", "ts_min", "ts_max"}

TsInit ==
    /\ wt_op \in TsOps \cup TsLagOps
    /\ \E n \in 0..MaxTsRows, two \in BOOLEAN :
          \E col \in [1..n -> TsCells] : wt_x = TsFrame(col, two)
    /\ wt_par \in 1..MaxWindow
    /\ wt_out = WtCall
    /\ wt_pc = "call"
    /\ TwIdle
    /\ BkIdle
    /\ DcIdle
    /\ CcIdle
    /\ EwIdle
    /\ SessIdle
    /\ ClIdle
    /\ CmIdle

WtReturn(t) ==
    /\ wt_out' = WtOk(t)
    /\ wt_pc' = "done"
    /\ UNCHANGED <<wt_op, wt_x, wt_par>>
    /\ WtFrame

\* ts_mean(x, d) (time_series.py:16-31).
TsMean ==
    /\ wt_pc = "call"
    /\ wt_op = "ts_mean"
    /\ WtReturn(TsSelect(wt_x, LAMBDA col : TsRolling(col, wt_par, TsMeanOf)))

\* ts_sum(x, d) (time_series.py:34-49).
TsSum ==
    /\ wt_pc = "call"
    /\ wt_op = "ts_sum"
    /\ WtReturn(TsSelect(wt_x, LAMBDA col : TsRolling(col, wt_par, TsSumOf)))

\* ts_std(x, d) (time_series.py:52-67).
TsStd ==
    /\ wt_pc = "call"
    /\ wt_op = "ts_std"
    /\ \E one \in TsStdOfOne :
          WtReturn(TsSelect(wt_x, LAMBDA col :
                       TsRolling(col, wt_par, LAMBDA w : TsStdOf(w, one))))

\* ts_min(x, d) (time_series.py:70-85).
TsMin ==
    /\ wt_pc = "call"
    /\ wt_op = "ts_min"
    /\ WtReturn(TsSelect(wt_x, LAMBDA col : TsRolling(col, wt_par, TsMinOf)))

\* ts_max(x, d) (time_series.py:88-103).
TsMax ==
    /\ wt_pc = "call"
    /\ wt_op = "ts_max"
    /\ WtReturn(TsSelect(wt_x, LAMBDA col : TsRolling(col, wt_par, TsMaxOf)))

\* ts_delta(x, d) (time_series.py:106-121).
TsDelta ==
    /\ wt_pc = "call"
    /\ wt_op = "ts_delta"
    /\ WtReturn(TsSelect(wt_x, LAMBDA col : TsDiff(col, wt_par)))

\* ts_delay(x, d) (time_series.py:124-139).
TsDelay ==
    /\ wt_pc = "call"
    /\ wt_op = "ts_delay"
    /\ WtReturn(TsSelect(wt_x, LAMBDA col : TsShift(col, wt_par)))

TsNext ==
    \/ TsMean
    \/ TsSum
    \/ TsStd
    \/ TsMin
    \/ TsMax
    \/ TsDelta
    \/ TsDelay

----------------------------------------------------------------------------
(* Cross-sectional operators (operators/cross_sectional.py): one call of   *)
(* rank or scale on a wide table; every row is treated on its own.         *)

MaxXsCols == 3

XsColNames == <<"a", "b", "c", "d", "e">>

TypeError == "TypeError"

WtErr(e) == [err |-> e, table |-> NoFrame]

WtRaise(e) ==
    /\ wt_out' = WtErr(e)
    /\ wt_pc' = "raised"
    /\ UNCHANGED <<wt_op, wt_x, wt_par>>
    /\ WtFrame

\* The cells of row i in column order.
XsRow(x, i) == [j \in 1..Len(x.cols) |-> x.cells[x.cols[j]][i]]

\* x with every row replaced by F(row).
XsByRow(x, F(_)) ==
    [dates |-> x.dates, cols |-> x.cols,
     cells |-> [c \in ColSet(x) |->
                  [i \in 1..Rows(x) |->
                     F(XsRow(x, i))[CHOOSE j \in 1..Len(x.cols) : x.cols[j] = c]]]]

\* pl.col("value").rank(method="ordinal", descending=not ascending)
\* .over(date_col) on the unpivoted table: within a date the non-null values
\* are numbered from 1 in sorted order, equal values in column order; a
\* null has no rank.
XsRankRow(row, ascending) ==
    LET before(k, j) ==
            /\ row[k] # Null
            /\ \/ IF ascending THEN FltLt(row[k], row[j]) ELSE FltLt(row[j], row[k])
               \/ row[k] = row[j] /\ k < j
    IN [j \in 1..Len(row) |->
           IF row[j] = Null THEN Null
           ELSE Flt(1 + Cardinality({k \in 1..Len(row) : before(k, j)}))]

\* pl.sum_horizontal(...): the sum of the non-null cells.
XsSumHorizontal(row) ==
    LET acc[j \in 0..Len(row)] ==
            IF j = 0 THEN Flt(0)
            ELSE IF row[j] = Null THEN acc[j - 1] ELSE CellAdd(acc[j - 1], row[j])
    IN acc[Len(row)]

\* The plain sum of the row.
XsAbsSumSigned(row) == XsSumHorizontal(row)

\* abs_sum = pl.sum_horizontal(*[pl.col(c).abs() for c in value_cols]).
XsAbsSum(row) == XsSumHorizontal([j \in 1..Len(row) |-> CellAbs(row[j])])

\* pl.col(c) * scale / abs_sum.
XsScaleRow(row, scale) ==
    [j \in 1..Len(row) |-> CellDiv(CellMul(row[j], scale), XsAbsSum(row))]

\* x > 0 and x < 0 as polars expressions on a non-null float.
XsPositive(c) == c # Null /\ FltLt(Flt(0), c)

\* No cell counts as negative.
XsNegativeNever(c) == FALSE

XsNegative(c) == c # Null /\ FltLt(c, Flt(0))

\* The long / short branch of scale (cross_sectional.py:139-161).
XsScaleSidesRow(row, longscale, shortscale) ==
    LET long_sum ==
            XsSumHorizontal([j \in 1..Len(row) |->
                                IF XsPositive(row[j]) THEN row[j] ELSE Flt(0)])
        short_sum ==
            XsSumHorizontal([j \in 1..Len(row) |->
                                IF XsNegative(row[j]) THEN CellNeg(row[j]) ELSE Flt(0)])
        long_factor ==
            IF XsPositive(long_sum) THEN CellDiv(longscale, long_sum) ELSE Flt(0)
        short_factor ==
            IF XsPositive(short_sum) THEN CellDiv(shortscale, short_sum) ELSE Flt(0)
    IN [j \in 1..Len(row) |->
           IF XsPositive(row[j]) THEN CellMul(row[j], long_factor)
           ELSE IF XsNegative(row[j]) THEN CellMul(row[j], short_factor)
           ELSE Flt(0)]

XsCells == {Null, Flt(-2), Flt(0), Flt(1), Flt(3), PosInf}

\* A table of two dates: the first row is the given one, the second has a
\* null in its second column and numbers of alternating sign elsewhere.
XsFrame(row) ==
    [dates |-> <<1, 2>>,
     cols |-> SubSeq(XsColNames, 1, Len(row)),
     cells |-> [c \in {XsColNames[j] : j \in 1..Len(row)} |->
                  LET j == CHOOSE k \in 1..Len(row) : XsColNames[k] = c
                  IN <<row[j],
                       IF j = 2 THEN Null ELSE IF j % 2 = 1 THEN Flt(j) ELSE Flt(-j)>>]]

XsOps == {"rank", "scale"}

XsInit ==
    /\ \/ /\ wt_op = "rank"
          /\ wt_par \in [ascending : BOOLEAN, rate : {"absent", "0"}]
       \/ /\ wt_op = "scale"
          /\ wt_par \in [scale : {Flt(-1), Flt(0), Flt(1), Flt(4)},
                         longscale : {Flt(0), Flt(4)},
                         shortscale : {Flt(0), Flt(3)}]
    /\ \E n \in 1..MaxXsCols : \E row \in [1..n -> XsCells] : wt_x = XsFrame(row)
    /\ wt_out = WtCall
    /\ wt_pc = "call"
    /\ TwIdle
    /\ BkIdle
    /\ DcIdle
    /\ CcIdle
    /\ EwIdle
    /\ SessIdle
    /\ ClIdle
    /\ CmIdle

\* rank(x, ascending) (cross_sectional.py:16-50); the function takes no
\* other argument.
XsRank ==
    /\ wt_pc = "call"
    /\ wt_op = "rank"
    /\ IF wt_par.rate # "absent"
       THEN WtRaise(TypeError)
       ELSE WtReturn(XsByRow(wt_x, LAMBDA row : XsRankRow(row, wt_par.ascending)))

\* scale(x, scale, longscale, shortscale) (cross_sectional.py:99-169).
XsScale ==
    /\ wt_pc = "call"
    /\ wt_op = "scale"
    /\ IF XsPositive(wt_par.longscale) \/ XsPositive(wt_par.shortscale)
       THEN WtReturn(XsByRow(wt_x, LAMBDA row :
                        XsScaleSidesRow(row, wt_par.longscale, wt_par.shortscale)))
       ELSE WtReturn(XsByRow(wt_x, LAMBDA row : XsScaleRow(row, wt_par.scale)))

XsNext ==
    \/ XsRank
    \/ XsScale

----------------------------------------------------------------------------
(* Specifications                                                          *)

SpecTradeWhen == TwInit /\ [][TwNext]_vars

SpecBucket == BkInit /\ [][BkNext]_vars

SpecCache == DcInit /\ [][DcNext]_vars

SpecCacheConc == CcInit /\ [][CcNext]_vars

SpecElementwise == EwInit /\ [][EwNext]_vars

SpecSession == SessInit /\ [][SessNext]_vars

SpecTimeSeries == TsInit /\ [][TsNext]_vars

SpecCrossSection == XsInit /\ [][XsNext]_vars

----------------------------------------------------------------------------
(* Claims about trade_when                                                 *)

\* Row t neither exits nor enters.
TwHoldRow(t) == ~GtZero(exit_vals[t]) /\ ~GtZero(trig_vals[t])

TwPrevOut(t) == IF t = 1 THEN Null ELSE out[t - 1]

\* C1: at every row whose exit cell is > 0 the output is null and the
\* carried value is reset (the column is Flat), whatever the entry cell is.
C1_ExitWins ==
    \A t \in 1..Len(out) :
        GtZero(exit_vals[t]) =>
            /\ out[t] = Null
            /\ (t = Len(out) => prev_alpha = Null)

\* A processed row where entry and exit are both > 0 and alpha is not null.
C1_Witness ==
    /\ Len(out) >= 1
    /\ GtZero(exit_vals[Len(out)])
    /\ GtZero(trig_vals[Len(out)])
    /\ alpha_vals[Len(out)] # Null

\* C2: a row with neither exit > 0 nor entry > 0 repeats the previous row's
\* output (null at the first row) and leaves the carried value as it was:
\* the carried value always equals the last output, so a hold row hands on
\* exactly what it received.  Every row up to which no entry was > 0 is null.
C2_Hold ==
    /\ prev_alpha = (IF Len(out) = 0 THEN Null ELSE out[Len(out)])
    /\ \A t \in 1..Len(out) :
          TwHoldRow(t) => out[t] = TwPrevOut(t)
    /\ \A t \in 1..Len(out) :
          (\A s \in 1..t : ~GtZero(trig_vals[s])) => out[t] = Null

\* A hold row that repeats a non-null output.
C2_Witness ==
    /\ Len(out) >= 2
    /\ TwHoldRow(Len(out))
    /\ out[Len(out)] # Null
    /\ out[Len(out)] = out[Len(out) - 1]

\* The rows s <= t that enter: entry > 0 and not exit > 0.
TwEntering(t) == {s \in 1..t : GtZero(trig_vals[s]) /\ ~GtZero(exit_vals[s])}

TwLatestEntry(t) == CHOOSE s \in TwEntering(t) : \A r \in TwEntering(t) : r <= s

TwClosedForm(t) ==
    IF TwEntering(t) = {} THEN Null
    ELSE LET s == TwLatestEntry(t)
         IN IF \E r \in (s + 1)..t : GtZero(exit_vals[r]) THEN Null
            ELSE alpha_vals[s]

\* C3: output[t] is alpha[s] for the latest entering row s <= t when no row
\* in (s, t] has exit > 0, and null otherwise; the example of testable
\* property 6 yields [null, 6, 6, null, null].
C3_ClosedForm ==
    /\ \A t \in 1..Len(out) : out[t] = TwClosedForm(t)
    /\ (tw_pc = "done" /\ trig_vals = ExampleTrig /\ alpha_vals = ExampleAlpha
            /\ exit_vals = ExampleExit) => out = ExampleOut

\* The example has run to its end.
C3_Witness ==
    /\ tw_pc = "done"
    /\ trig_vals = ExampleTrig
    /\ alpha_vals = ExampleAlpha
    /\ exit_vals = ExampleExit
    /\ out = ExampleOut

----------------------------------------------------------------------------
(* Claims about bucket                                                     *)

BkNoSkip == ~bk_flags.skipBegin /\ ~bk_flags.skipEnd /\ ~bk_flags.skipBoth

BkAscending == \A j \in 1..(Len(boundaries) - 1) : boundaries[j] <= boundaries[j + 1]

\* The brackets that hold val under the (lower, upper] convention.
BkHolding(val) ==
    {j \in 1..Len(brackets) :
        CellLt(brackets[j].lower, val) /\ CellLe(val, brackets[j].upper)}

\* The processed cells that are neither null nor NaN.
BkValueRows ==
    {t \in 1..Len(bucket_indices) : col_data[t] # Null /\ col_data[t] # NaN}

\* Row t lies in exactly one bracket and received that bracket's index.
BkUniquelyAssigned(t) ==
    /\ Cardinality(BkHolding(col_data[t])) = 1
    /\ \A j \in BkHolding(col_data[t]) : bucket_indices[t] = Num(j - 1)

\* Head (-inf, first], each (b_i, b_i+1], tail: contiguous, indexed 0, 1, ...
BkContiguous ==
    /\ Len(brackets) = Len(boundaries) + 1
    /\ brackets[1].lower = NegInf
    /\ brackets[Len(brackets)].upper = PosInf
    /\ \A j \in 1..Len(brackets) : brackets[j].idx = j - 1
    /\ \A j \in 1..(Len(brackets) - 1) :
          /\ brackets[j].upper = Num(boundaries[j])
          /\ brackets[j + 1].lower = brackets[j].upper

BkExampleSpec ==
    range_spec = SpecStr(<<Num(0), Num(10), Num(5)>>) /\ ~buckets.given

\* C10 as stated: with an ascending boundary list and no skip flag, every
\* cell that is not null lies in exactly one bracket and receives its index.
C10_Original ==
    (bk_pc \in {"built", "done"} /\ BkNoSkip /\ BkAscending) =>
        \A t \in BkValueRows : BkUniquelyAssigned(t)

\* C10 (amended): with an ascending boundary list and no skip flag the
\* brackets are contiguous and indexed 0, 1, 2, ...; every cell that is not
\* null and not -inf lies in exactly one bracket and receives its index,
\* while -inf lies in no bracket and stays null.  With range_spec "0,10,5"
\* the value 7 gets index 2, that of (5, 10], and the value -3 gets index 0.
C10_Brackets ==
    (bk_pc \in {"built", "done"} /\ BkNoSkip /\ BkAscending) =>
        /\ BkContiguous
        /\ \A t \in BkValueRows :
              IF col_data[t] = NegInf
              THEN BkHolding(col_data[t]) = {} /\ bucket_indices[t] = Null
              ELSE BkUniquelyAssigned(t)
        /\ BkExampleSpec =>
              /\ brackets[3] = [lower |-> Num(5), upper |-> Num(10), idx |-> 2]
              /\ \A t \in BkValueRows :
                    /\ col_data[t] = Num(7) => bucket_indices[t] = Num(2)
                    /\ col_data[t] = Num(-3) => bucket_indices[t] = Num(0)

\* bucket(x, range_spec="0,10,5") has returned for the column of all cells.
C10_Witness ==
    /\ bk_pc = "done"
    /\ BkNoSkip
    /\ BkExampleSpec
    /\ col_data = BkAllCells
    /\ bucket_indices[1] = Num(2)
    /\ bucket_indices[2] = Num(0)

----------------------------------------------------------------------------
(* Claims about the disk cache                                             *)

Resident == DOMAIN entries

\* The step is the cache operation op (the clock stands still during an
\* operation, and every operation records its name).
DcStep(op) == now' = now /\ dc_op'.op = op /\ dcVars' # dcVars

\* The step is the cache operation op on key.
DcKeyStep(op, key) == DcStep(op) /\ dc_op'.key = key

\* C4: a get of an entry created more than ttl_seconds ago returns a miss,
\* exactly as for an absent key, and leaves the key absent; a get of a
\* resident entry within the TTL hits with the stored table and keeps it.
C4_TTL ==
    [][\A key \in Keys : DcKeyStep("get", key) =>
          IF key \in Resident /\ now - entries[key].created_at <= TtlSeconds
          THEN /\ dc_op'.hit
               /\ dc_op'.table = Deserialize(entries[key].payload)
               /\ key \in DOMAIN entries'
          ELSE /\ ~dc_op'.hit
               /\ dc_op'.table = NoTable
               /\ key \notin DOMAIN entries'
      ]_vars

\* A get has just dropped an expired entry.
C4_Witness ==
    /\ dc_op.op = "get"
    /\ ~dc_op.hit
    /\ dc_op.removed = <<dc_op.key>>

LruBefore(a, b) ==
    \/ entries[a].last_accessed_at < entries[b].last_accessed_at
    \/ /\ entries[a].last_accessed_at = entries[b].last_accessed_at
       /\ \E p, q \in 1..Len(order) : p < q /\ order[p] = a /\ order[q] = b

\* The run has followed the scenario and tables of that size fit twice but
\* not three times under the cap.
ScenDone == scen.step = 4 /\ 2 * scen.size <= MaxSizeBytes /\ MaxSizeBytes < 3 * scen.size

ScenOutcome == Resident = {scen.a, dc_op.key} /\ scen.b \notin Resident

C9_Invalidate ==
    [][/\ \A key \in Keys : DcKeyStep("invalidate", key) =>
            /\ dc_op'.flag = (key \in Resident)
            /\ DOMAIN entries' = Resident \ {key}
            /\ \A j \in DOMAIN entries' : entries'[j] = entries[j]
       /\ \A key \in Keys \ Resident :
            /\ DcKeyStep("get", key) => ~dc_op'.hit
            /\ key \in DOMAIN entries' => DcKeyStep("put", key)
       /\ DcStep("clear") => DOMAIN entries' = {}
       /\ DcStep("stats") =>
            /\ dc_op'.entries = Cardinality(Resident)
            /\ (Resident = {} => dc_op'.entries = 0)
      ]_vars

\* invalidate has removed one of two resident entries and returned true.
C9_Witness ==
    /\ dc_op.op = "invalidate"
    /\ dc_op.flag
    /\ Cardinality(Resident) = 1

----------------------------------------------------------------------------
(* Claims about the disk cache under concurrent callers                    *)

CcAllDone == \A t \in Threads : threads[t].pc = "done"

CcQuiet == \A t \in Threads : ~CcBusy(t)

RECURSIVE CcPutBytes(_)
CcPutBytes(S) ==
    IF S = {} THEN 0
    ELSE LET t == CHOOSE x \in S : TRUE
         IN threads[t].call.table.size + CcPutBytes(S \ {t})

\* Every thread has put, under a key of its own, and the tables put fit
\* under the cap together.
CcPutsFit ==
    /\ CcAllDone
    /\ \A t \in Threads : threads[t].call.op = "put"
    /\ \A t, u \in Threads : t # u => threads[t].call.key # threads[u].call.key
    /\ CcPutBytes(Threads) <= MaxSizeBytes

\* A get of key would hit and return table.
CcWouldHit(key, table) ==
    /\ key \in DOMAIN entries
    /\ ~(now - entries[key].created_at > TtlSeconds)
    /\ entries[key].payload.val = table.val
    /\ entries[key].payload.size = table.size
    /\ entries[key].size_bytes = table.size

----------------------------------------------------------------------------
(* Claims about bucket's argument checks                                   *)

\* The specification is missing, conflicting, malformed (a range_spec that
\* is not three parts, a part float() rejects), has step <= 0, or gives
\* fewer than 2 explicit boundaries.
BkBadSpec ==
    \/ ~range_spec.given /\ ~buckets.given
    \/ range_spec.given /\ buckets.given
    \/ /\ range_spec.given
       /\ \/ Len(range_spec.parts) # 3
          \/ \E j \in 1..Len(range_spec.parts) : range_spec.parts[j].k = "bad"
          \/ range_spec.parts[3].k = "num" /\ range_spec.parts[3].v <= 0
    \/ /\ buckets.given
       /\ \/ \E j \in 1..Len(buckets.parts) : buckets.parts[j].k = "bad"
          \/ Len(buckets.parts) < 2

\* C11: once bucket has looked at a missing, conflicting or malformed
\* specification, a step <= 0 or fewer than 2 explicit boundaries, it has
\* raised InvalidBucketSpecError and has built nothing of a result.
C11_InvalidSpec ==
    (bk_pc # "call" /\ BkBadSpec) =>
        /\ bk_pc = "raised"
        /\ bk_error = InvalidBucketSpecError
        /\ boundaries = <<>>
        /\ brackets = <<>>
        /\ bucket_indices = <<>>

\* bucket has raised on a well-formed range whose step is not positive.
C11_Witness ==
    /\ bk_pc = "raised"
    /\ bk_error = InvalidBucketSpecError
    /\ range_spec.given
    /\ ~buckets.given
    /\ Len(range_spec.parts) = 3
    /\ \A j \in 1..3 : range_spec.parts[j].k = "num"
    /\ range_spec.parts[3].v <= 0

----------------------------------------------------------------------------
(* Claims about the elementwise operators                                  *)

EwMultiTableOps ==
    {"add", "subtract", "multiply", "divide", "power", "signed_power", "min", "max",
     "trade_when"}

\* Some argument's date axis or column set differs from the first's.
EwMismatched ==
    /\ Len(ew_args) >= 2
    /\ \E j \in 2..Len(ew_args) :
          \/ ew_args[j].dates # ew_args[1].dates
          \/ ColSet(ew_args[j]) # ColSet(ew_args[1])

\* C12: a multi-table operator given tables whose date axes or column sets
\* differ raises at the call and returns no table (whatever the exception
\* is called).
C12_ShapeMismatch ==
    (ew_pc # "call" /\ ew_op \in EwMultiTableOps /\ EwMismatched) =>
        (ew_pc = "raised" /\ ew_error # "" /\ ew_result = NoFrame)

\* The call returned and every argument has the shape of the first.
EwReturned(op) == ew_op = op /\ ew_pc = "done" /\ ~EwMismatched

\* The (column, row) positions of the first argument.
EwPositions == {<<c, i>> : c \in ColSet(ew_args[1]), i \in 1..Rows(ew_args[1])}

EwIn(j, p) == ew_args[j].cells[p[1]][p[2]]
EwOut(p) == ew_result.cells[p[1]][p[2]]

\* r is the float quotient a / b of non-null a and non-null, non-zero b.
IsQuotient(r, a, b) ==
    IF IsNum(a) /\ IsNum(b)
    THEN IsNum(r) /\ r.v * b.v * a.d = a.v * b.d * r.d
    ELSE r = CellDiv(a, b)

\* C15: divide never raises on tables of one shape; a cell whose
\* denominator is 0 is null, and a cell with a non-null numerator and a
\* non-null, non-zero denominator is the quotient.
C15_Divide ==
    /\ (ew_op = "divide" /\ ew_pc # "call" /\ ~EwMismatched) => ew_pc = "done"
    /\ EwReturned("divide") =>
          \A p \in EwPositions :
             /\ EwIn(2, p) = Flt(0) => EwOut(p) = Null
             /\ (EwIn(1, p) # Null /\ EwIn(2, p) \notin {Null, Flt(0)})
                   => IsQuotient(EwOut(p), EwIn(1, p), EwIn(2, p))

\* divide returned null for 4 / 0.
C15_Witness ==
    /\ EwReturned("divide")
    /\ ew_args = <<Cell1(Flt(4)), Cell1(Flt(0))>>
    /\ ew_result.cells["a"][1] = Null

\* a OP b on cells, for the operators with a filter flag.
EwApply(op, a, b) ==
    CASE op = "add" -> CellAdd(a, b)
      [] op = "subtract" -> CellSub(a, b)
      [] op = "multiply" -> CellMul(a, b)

EwIdentity(op) == IF op = "multiply" THEN Flt(1) ELSE Flt(0)

\* The operator applied from left to right to the cells of the first n
\* arguments at position p, nulls replaced by the identity when fill.
RECURSIVE EwCombined(_, _, _)
EwCombined(p, n, fill) ==
    LET cell == IF fill /\ EwIn(n, p) = Null THEN EwIdentity(ew_op) ELSE EwIn(n, p)
    IN IF n = 1 THEN cell ELSE EwApply(ew_op, EwCombined(p, n - 1, fill), cell)

EwNulls(p) == {j \in 1..Len(ew_args) : EwIn(j, p) = Null}

EwFilterReturned == ew_op \in EwFilterOps /\ ew_pc = "done" /\ ~EwMismatched

\* With the flag every result cell is the operation on the operands with
\* nulls replaced by the identity; without it a null operand gives null.
EwFilterRule ==
    EwFilterReturned =>
        \A p \in EwPositions :
           /\ ew_filter => EwOut(p) = EwCombined(p, Len(ew_args), TRUE)
           /\ (~ew_filter /\ EwNulls(p) # {}) => EwOut(p) = Null
           /\ (~ew_filter /\ EwNulls(p) = {}) => EwOut(p) = EwCombined(p, Len(ew_args), FALSE)

\* C19 as stated: the rule, and with the flag a cell of two operands of
\* which exactly one is null is the other operand.
C19_Original ==
    /\ EwFilterRule
    /\ (EwFilterReturned /\ ew_filter /\ Len(ew_args) = 2) =>
          \A p \in EwPositions :
             /\ (EwIn(1, p) = Null /\ EwIn(2, p) # Null) => EwOut(p) = EwIn(2, p)
             /\ (EwIn(2, p) = Null /\ EwIn(1, p) # Null) => EwOut(p) = EwIn(1, p)

\* C19: the rule; with the flag a cell of two operands of which exactly one
\* is null is the other operand, except that subtract with a null left side
\* gives the negated right side.
C19_Filter ==
    /\ EwFilterRule
    /\ (EwFilterReturned /\ ew_filter /\ Len(ew_args) = 2) =>
          \A p \in EwPositions :
             /\ (EwIn(1, p) = Null /\ EwIn(2, p) # Null) =>
                   EwOut(p) = IF ew_op = "subtract" THEN CellNeg(EwIn(2, p)) ELSE EwIn(2, p)
             /\ (EwIn(2, p) = Null /\ EwIn(1, p) # Null) => EwOut(p) = EwIn(1, p)

\* multiply with the flag passed 4 through a null left side.
C19_Witness ==
    /\ EwFilterReturned
    /\ ew_op = "multiply"
    /\ ew_filter
    /\ ew_args = <<Cell1(Null), Cell1(Flt(4))>>
    /\ ew_result.cells["a"][1] = Flt(4)

\* C20: inverse, log and sqrt never raise; inverse gives null where x == 0,
\* log where x <= 0, sqrt where x < 0, and sqrt(0) is 0; a cell in the domain
\* (not null, not NaN) gets the mathematical value: 1/x, ln x, the root of x.
C20_DomainGuards ==
    /\ (ew_op \in EwUnaryOps /\ ew_pc # "call") => ew_pc = "done"
    /\ EwReturned("inverse") =>
          \A p \in EwPositions :
             LET x == EwIn(1, p)
             IN /\ x = Flt(0) => EwOut(p) = Null
                /\ x \notin {Null, NaN, Flt(0)} => IsQuotient(EwOut(p), Flt(1), x)
    /\ EwReturned("log") =>
          \A p \in EwPositions :
             LET x == EwIn(1, p)
             IN /\ (x = NegInf \/ (IsNum(x) /\ x.v <= 0)) => EwOut(p) = Null
                /\ x = Flt(1) => EwOut(p) = Flt(0)
                /\ x = PosInf => EwOut(p) = PosInf
                /\ (IsNum(x) /\ x.v > 0 /\ x # Flt(1)) =>
                      EwOut(p) = [k |-> "ln", v |-> x.v, d |-> x.d]
    /\ EwReturned("sqrt") =>
          \A p \in EwPositions :
             LET x == EwIn(1, p)
             IN /\ (x = NegInf \/ (IsNum(x) /\ x.v < 0)) => EwOut(p) = Null
                /\ x = Flt(0) => EwOut(p) = Flt(0)
                /\ x = PosInf => EwOut(p) = PosInf
                /\ (IsNum(x) /\ x.v > 0) =>
                      \/ IsNum(EwOut(p)) /\ CellMul(EwOut(p), EwOut(p)) = x
                            /\ EwOut(p).v > 0
                      \/ EwOut(p) = [k |-> "sqrt", v |-> x.v, d |-> x.d]

\* sqrt returned 0 for 0.
C20_Witness ==
    /\ EwReturned("sqrt")
    /\ ew_args = <<Cell1(Flt(0))>>
    /\ ew_result.cells["a"][1] = Flt(0)

----------------------------------------------------------------------------
(* C13.  While the session stays active, the client fetch of a field       *)
(* returns at most once, and all the accesses to the field that begin and  *)
(* end in that active period return the same Alpha object, whatever the    *)
(* interleaving of the threads.  A client fetch that raises caches         *)
(* nothing, so the next access to the field fetches again.                 *)

SessOneObject == \A n \in SessRegistered : Cardinality(s_seen[n]) <= 1

\* C13 as stated: the client fetch is executed at most once per field.
C13_Original ==
    /\ \A n \in SessRegistered : s_tried[n] <= 1
    /\ SessOneObject

C13_Memoized ==
    /\ \A n \in SessRegistered : s_ok[n] <= 1
    /\ SessOneObject

\* Both threads have read close in the first active period, through
\* different calls; one fetch was made and both hold its object.
C13_Witness ==
    /\ s_active
    /\ s_exits = 0
    /\ s_ok["close"] = 1
    /\ s_tried["close"] = 1
    /\ \A t \in SessThreads :
          /\ s_thr[t].pc = "done"
          /\ s_thr[t].err = ""
          /\ s_thr[t].ret = <<<<"close", 1>>>>
    /\ s_thr["main"].op = "fetch"
    /\ s_thr["worker"].op = "getattr"

----------------------------------------------------------------------------
(* C14.  Attribute access to a field, fetch() and eval() whose check finds *)
(* the session inactive raise SessionNotActiveError, and that step neither *)
(* fetches nor changes the cache or the lock.  The session is inactive     *)
(* after construction, only __enter__ makes it active and only __exit__    *)
(* makes it inactive.                                                      *)

\* Thread t is at the active check of a call that reads fields.
SessAtCheck(t) ==
    \/ s_thr[t].pc = "evalcheck"
    \/ /\ s_thr[t].pc = "check"
       /\ s_thr[t].op = "fetch" \/ Head(s_thr[t].fields) # "_x"

SessRejected(t) ==
    /\ s_thr'[t].pc = "done"
    /\ s_thr'[t].err = SessionNotActiveError
    /\ s_thr'[t].ret = <<>>
    /\ UNCHANGED <<s_active, s_cache, s_lock, s_next, s_failed, s_tried, s_ok>>

SessLifecycleStep ==
    /\ (\E t \in SessThreads : SessEnter(t)) => s_active'
    /\ (\E t \in SessThreads : SessExitFlag(t)) => ~s_active'
    /\ s_active' # s_active =>
          IF s_active' THEN \E t \in SessThreads : SessEnter(t)
          ELSE \E t \in SessThreads : SessExitFlag(t)

C14_Lifecycle ==
    /\ ~s_active
    /\ [][/\ \A t \in SessThreads :
                SessAtCheck(t) /\ ~s_active /\ s_thr'[t] # s_thr[t] => SessRejected(t)
          /\ SessLifecycleStep]_vars

\* After __exit__, the worker's eval and the owner's fetch have both been
\* turned away.
C14_Witness ==
    /\ ~s_active
    /\ s_exits = 1
    /\ s_cache = <<>>
    /\ s_thr["worker"].op = "eval"
    /\ s_thr["worker"].err = SessionNotActiveError
    /\ s_thr["main"].op = "fetch"
    /\ s_thr["main"].err = SessionNotActiveError

----------------------------------------------------------------------------
(* C16.  For ts_mean, ts_sum, ts_std, ts_min and ts_max with window d,     *)
(* every cell of the result at a row index i < d - 1 (counted from 0) is   *)
(* null, and the result has the columns, the dates and the row count of    *)
(* the input.                                                              *)

TsReturned == wt_pc = "done" /\ wt_op \in TsOps

C16_StartNulls ==
    TsReturned =>
        /\ wt_out.err = ""
        /\ wt_out.table.cols = wt_x.cols
        /\ wt_out.table.dates = wt_x.dates
        /\ \A c \in ColSet(wt_x) :
              /\ Len(wt_out.table.cells[c]) = Rows(wt_x)
              /\ \A i \in 1..Rows(wt_x) :
                    i - 1 < wt_par - 1 => wt_out.table.cells[c][i] = Null

\* ts_std with window 3 on three rows without a null: two nulls, then a
\* value.
C16_Witness ==
    /\ TsReturned
    /\ wt_op = "ts_std"
    /\ wt_par = 3
    /\ Rows(wt_x) = 3
    /\ \A i \in 1..3 : wt_x.cells["a"][i] # Null
    /\ wt_out.table.cells["a"][1] = Null
    /\ wt_out.table.cells["a"][2] = Null
    /\ wt_out.table.cells["a"][3] # Null

----------------------------------------------------------------------------
(* C17.  Every non-null cell of rank(x) lies in [0, 1]; in a row with at   *)
(* least two non-null cells the cell of the minimum input is 0 and the     *)
(* cell of the maximum input is 1.  The code numbers the cells 1 .. N, so  *)
(* the property is violated.                                               *)

XsReturned(op) == wt_pc = "done" /\ wt_op = op

XsIn(c, i) == wt_x.cells[c][i]
XsOut(c, i) == wt_out.table.cells[c][i]

XsNonNull(i) == {c \in ColSet(wt_x) : XsIn(c, i) # Null}

C17_RankBounds ==
    XsReturned("rank") =>
        \A i \in 1..Rows(wt_x) :
           /\ \A c \in ColSet(wt_x) :
                 XsOut(c, i) # Null =>
                    ~FltLt(XsOut(c, i), Flt(0)) /\ ~FltLt(Flt(1), XsOut(c, i))
           /\ Cardinality(XsNonNull(i)) >= 2 =>
                 \A c \in XsNonNull(i) :
                    /\ (\A e \in XsNonNull(i) : ~FltLt(XsIn(e, i), XsIn(c, i)))
                          => \E e \in XsNonNull(i) :
                                XsIn(e, i) = XsIn(c, i) /\ XsOut(e, i) = Flt(0)
                    /\ (\A e \in XsNonNull(i) : ~FltLt(XsIn(c, i), XsIn(e, i)))
                          => \E e \in XsNonNull(i) :
                                XsIn(e, i) = XsIn(c, i) /\ XsOut(e, i) = Flt(1)

----------------------------------------------------------------------------
(* C18.  For a target s > 0 and a row whose non-null cells are finite and  *)
(* not all zero, the absolute values of the row of scale(x, scale=s) sum   *)
(* to s and every output cell has the sign of its input cell (a null       *)
(* stays null).  For s <= 0, for a row holding an infinity and for a row   *)
(* of nulls alone this fails.                                              *)

XsScaleReturned ==
    /\ XsReturned("scale")
    /\ ~XsPositive(wt_par.longscale)
    /\ ~XsPositive(wt_par.shortscale)

\* The sign of a cell, or what it is when it has none.
XsSign(c) == IF IsNum(c) \/ IsInf(c) THEN SignOf(c) ELSE c.k

XsScaledRow(i) ==
    /\ LET orow == XsRow(wt_out.table, i)
       IN XsSumHorizontal([j \in 1..Len(orow) |-> CellAbs(orow[j])]) = wt_par.scale
    /\ \A c \in ColSet(wt_x) : XsSign(XsOut(c, i)) = XsSign(XsIn(c, i))

----------------------------------------------------------------------------
(* C21.  add, multiply, max and min called with fewer than 2 tables raise  *)
(* ValueError and return nothing.  max and min of 2 or more tables of one  *)
(* shape return, in every cell, the maximum (minimum) of the non-null      *)
(* cells at that position, null when all are null, whatever the order of   *)
(* the tables.                                                             *)

EwSameShape ==
    \A j \in 1..Len(ew_args) :
       ew_args[j].dates = ew_args[1].dates /\ ew_args[j].cols = ew_args[1].cols

\* The sequences args can be reordered into.
EwReorderings ==
    {[j \in 1..Len(ew_args) |-> ew_args[p[j]]] :
        p \in {q \in [1..Len(ew_args) -> 1..Len(ew_args)] :
                  \A a, b \in 1..Len(ew_args) : a # b => q[a] # q[b]}}

\* m is the extremum of the cells of the tables at column c, row i.
EwExtremum(m, c, i) ==
    LET vals == {ew_args[j].cells[c][i] : j \in 1..Len(ew_args)} \ {Null}
    IN IF vals = {} THEN m = Null
       ELSE /\ m \in vals
            /\ \A o \in vals :
                  IF ew_op = "max" THEN ~FltLt(m, o) ELSE ~FltLt(o, m)

EwVariadicRule(error) ==
    ew_pc # "call" /\ ew_op \in EwVariadicOps /\ EwSameShape =>
        IF Len(ew_args) < 2
        THEN ew_pc = "raised" /\ ew_error = error /\ ew_result = NoFrame
        ELSE ew_op \in {"max", "min"} =>
                /\ ew_pc = "done"
                /\ \A c \in ColSet(ew_args[1]), i \in 1..Rows(ew_args[1]) :
                      EwExtremum(ew_result.cells[c][i], c, i)
                /\ \A args \in EwReorderings :
                      (IF ew_op = "max" THEN EwZipAll(args, MaxCell)
                       ELSE EwZipAll(args, MinCell)) = {EwOk(ew_result)}

----------------------------------------------------------------------------
(* C22.  With NANGroup set, every null or NaN cell receives the index that *)
(* follows the brackets' indices: the number of brackets, one more than    *)
(* the largest bracket index and so different from every bracket index.    *)
(* Without NANGroup such a cell stays null.  The index of any other cell   *)
(* is the one it receives with the flag inverted.                          *)

BkOtherNanGroup == [bk_flags EXCEPT !.NANGroup = ~bk_flags.NANGroup]

C22_NanGroup ==
    bk_pc \in {"built", "done"} =>
        \A t \in 1..Len(bucket_indices) :
           IF col_data[t] = Null \/ col_data[t] = NaN
           THEN IF bk_flags.NANGroup
                THEN /\ bucket_indices[t] = Num(Len(brackets))
                     /\ \A j \in 1..Len(brackets) :
                           /\ brackets[j].idx < Len(brackets)
                           /\ j = Len(brackets) => brackets[j].idx + 1 = Len(brackets)
                ELSE bucket_indices[t] = Null
           ELSE bucket_indices[t] =
                   BkAssign(col_data[t], BkBrackets(boundaries, BkOtherNanGroup),
                            BkNanIdx(BkBrackets(boundaries, BkOtherNanGroup),
                                     BkOtherNanGroup))

\* bucket(x, range_spec="0,10,5", NANGroup=True) on the column of all cells:
\* the null and the NaN get 4, after the brackets 0 .. 3.
C22_Witness ==
    /\ bk_pc = "done"
    /\ bk_flags.NANGroup
    /\ BkNoSkip
    /\ BkExampleSpec
    /\ col_data = BkAllCells
    /\ Len(brackets) = 4
    /\ bucket_indices[3] = Num(4)
    /\ bucket_indices[5] = Num(4)
    /\ bucket_indices[1] = Num(2)

----------------------------------------------------------------------------
(* C23.  The head bracket (-inf, first] is built unless skipBegin or       *)
(* skipBoth is set, the tail bracket (last, +inf] unless skipEnd or        *)
(* skipBoth is set, and skipBoth alone builds what skipBegin and skipEnd   *)
(* build together.  With the head skipped the first regular bracket has    *)
(* index 0.  A value that lies only in skipped brackets receives null.     *)

BkHasHead == \E j \in 1..Len(brackets) : brackets[j].lower = NegInf

BkHasTail == \E j \in 1..Len(brackets) : brackets[j].upper = PosInf

BkNoSkipFlags == [bk_flags EXCEPT !.skipBegin = FALSE, !.skipEnd = FALSE, !.skipBoth = FALSE]

\* The positions, in the bracket list built without skip flags, of the
\* brackets the flags leave out.
BkSkipped ==
    (IF bk_flags.skipBegin \/ bk_flags.skipBoth THEN {1} ELSE {})
        \cup (IF bk_flags.skipEnd \/ bk_flags.skipBoth THEN {Len(boundaries) + 1} ELSE {})

C23_SkipFlags ==
    bk_pc \in {"built", "done"} /\ Len(boundaries) >= 1 =>
        /\ BkHasHead <=> ~(bk_flags.skipBegin \/ bk_flags.skipBoth)
        /\ BkHasHead => brackets[1] = [lower |-> NegInf, upper |-> Num(boundaries[1]), idx |-> 0]
        /\ BkHasTail <=> ~(bk_flags.skipEnd \/ bk_flags.skipBoth)
        /\ BkHasTail =>
              /\ brackets[Len(brackets)].lower = Num(boundaries[Len(boundaries)])
              /\ brackets[Len(brackets)].upper = PosInf
        /\ bk_flags.skipBoth =>
              brackets = BkBrackets(boundaries,
                                    [bk_flags EXCEPT !.skipBegin = TRUE, !.skipEnd = TRUE,
                                                     !.skipBoth = FALSE])
        /\ ~BkHasHead /\ Len(boundaries) >= 2 =>
              brackets[1] = [lower |-> Num(boundaries[1]), upper |-> Num(boundaries[2]),
                             idx |-> 0]
        /\ \A t \in BkValueRows :
              LET full == BkBrackets(boundaries, BkNoSkipFlags)
                  holding == {j \in 1..Len(full) : BkInBracket(col_data[t], full[j])}
              IN holding # {} /\ holding \subseteq BkSkipped => bucket_indices[t] = Null

\* bucket(x, range_spec="0,10,5", skipBoth=True) on the column of all cells:
\* the brackets are (0, 5] and (5, 10]; -3 and 12 get null, 5 gets 0 and 7
\* gets 1.
C23_Witness ==
    /\ bk_pc = "done"
    /\ bk_flags.skipBoth /\ ~bk_flags.skipBegin /\ ~bk_flags.skipEnd
    /\ BkExampleSpec
    /\ col_data = BkAllCells
    /\ Len(brackets) = 2
    /\ bucket_indices[1] = Num(1)
    /\ bucket_indices[2] = Null
    /\ bucket_indices[6] = Num(0)
    /\ bucket_indices[10] = Null

----------------------------------------------------------------------------
(* C24.  For d >= 1, every column and every row t (counted from 0),        *)
(* ts_delay(x, d)[t] is x[t - d] when t >= d and null when t < d, and      *)
(* ts_delta(x, d)[t] is x[t] - ts_delay(x, d)[t], a null operand giving    *)
(* null, so that the first d rows of both are null.  Columns, dates and    *)
(* row count are those of x.                                               *)

TsLagReturned == wt_pc = "done" /\ wt_op \in TsLagOps

\* ts_delay(x, d)[t] for row t (from 1) of column c.
TsDelayed(c, t) == IF t - 1 >= wt_par THEN wt_x.cells[c][t - wt_par] ELSE Null

C24_DelayDelta ==
    TsLagReturned /\ wt_par >= 1 =>
        /\ wt_out.table.cols = wt_x.cols
        /\ wt_out.table.dates = wt_x.dates
        /\ \A c \in ColSet(wt_x) :
              /\ Len(wt_out.table.cells[c]) = Rows(wt_x)
              /\ \A t \in 1..Rows(wt_x) :
                    /\ wt_op = "ts_delay" => wt_out.table.cells[c][t] = TsDelayed(c, t)
                    /\ wt_op = "ts_delta" =>
                          wt_out.table.cells[c][t]
                             = CellSub(wt_x.cells[c][t], TsDelayed(c, t))
                    /\ t - 1 < wt_par => wt_out.table.cells[c][t] = Null

\* ts_delta(x, 2) on the column 1, 2, 4: null, null, 3.
C24_Witness ==
    /\ TsLagReturned
    /\ wt_op = "ts_delta"
    /\ wt_par = 2
    /\ wt_x.cells["a"] = <<Flt(1), Flt(2), Flt(4)>>
    /\ wt_out.table.cells["a"] = <<Null, Null, Flt(3)>>

----------------------------------------------------------------------------
(* C25.  scale with longscale > 0 or shortscale > 0, on a row whose        *)
(* non-null cells are finite: the positive cells become x * longscale /    *)
(* (sum of the positive cells) and so sum to longscale, the negative cells *)
(* become x * shortscale / (sum of their absolute values) and so sum in    *)
(* absolute value to shortscale, neither side depending on the other, and  *)
(* every cell of a side whose target is 0 becomes exactly 0.  A row that   *)
(* holds an infinity yields NaN instead.                                   *)

XsSidesReturned ==
    /\ XsReturned("scale")
    /\ XsPositive(wt_par.longscale) \/ XsPositive(wt_par.shortscale)

\* The columns whose cell in row i is above (sign = 1) or below (sign = -1)
\* zero.
XsSide(i, sign) ==
    {c \in ColSet(wt_x) :
        /\ XsIn(c, i) # Null
        /\ IF sign > 0 THEN FltLt(Flt(0), XsIn(c, i)) ELSE FltLt(XsIn(c, i), Flt(0))}

\* The sum of the absolute values of row i of t over the columns cs.
XsSideSum(t, i, cs) ==
    XsSumHorizontal([j \in 1..Len(t.cols) |->
                        IF t.cols[j] \in cs THEN CellAbs(t.cells[t.cols[j]][i]) ELSE Null])

XsSideRule(i, sign, target) ==
    LET side == XsSide(i, sign)
    IN /\ side # {} /\ target # Flt(0) =>
             /\ XsSideSum(wt_out.table, i, side) = target
             /\ \A c \in side :
                   XsOut(c, i) = CellMul(XsIn(c, i), CellDiv(target, XsSideSum(wt_x, i, side)))
       /\ target = Flt(0) => \A c \in side : XsOut(c, i) = Flt(0)

XsSidesRow(i) ==
    /\ XsSideRule(i, 1, wt_par.longscale)
    /\ XsSideRule(i, -1, wt_par.shortscale)

\* C25 as stated: in every row.
C25_Original == XsSidesReturned => \A i \in 1..Rows(wt_x) : XsSidesRow(i)

C25_Sides ==
    XsSidesReturned =>
        \A i \in 1..Rows(wt_x) :
           (\A c \in XsNonNull(i) : IsNum(XsIn(c, i))) => XsSidesRow(i)

\* longscale = 4, shortscale = 3 on the row 1, -2, 3 gives 1, -3, 3.
C25_Witness ==
    /\ XsSidesReturned
    /\ wt_par.longscale = Flt(4)
    /\ wt_par.shortscale = Flt(3)
    /\ XsRow(wt_x, 1) = <<Flt(1), Flt(-2), Flt(3)>>
    /\ XsRow(wt_out.table, 1) = <<Flt(1), Flt(-3), Flt(3)>>

-----------------------------------------------------------------------------
\* QuantDLClient (client.py): the per-security fetches and their use of the
\* disk cache.  A table is the set of the dates of its rows; the remote file of
\* a path holds one row for every date of 1..MaxDate and never changes.

MaxDate == 3

ClDates == 1..MaxDate

ClRemote == ClDates

ClKinds == {"ticks", "fundamentals"}

ClNone == [none |-> TRUE, rows |-> {}]

ClFrameOf(rows) == [none |-> FALSE, rows |-> rows]

\* df.filter((pl.col(c) >= start) & (pl.col(c) <= end))
ClFilter(rows, start, end) == {d \in rows : d >= start /\ d <= end}

ClInit ==
    /\ cl_cache = [k \in ClKinds |-> ClNone]
    /\ cl_call = [kind |-> "", start |-> 0, end |-> 0]
    /\ cl_ret = ClNone
    /\ TwIdle
    /\ BkIdle
    /\ DcIdle
    /\ CcIdle
    /\ EwIdle
    /\ SessIdle
    /\ WtIdle
    /\ CmIdle

\* _fetch_ticks_single, the path is in the cache: the cached table, filtered.
ClTicksHit(start, end) ==
    /\ ~cl_cache["ticks"].none
    /\ cl_call' = [kind |-> "ticks", start |-> start, end |-> end]
    /\ cl_ret' = ClFrameOf(ClFilter(cl_cache["ticks"].rows, start, end))
    /\ UNCHANGED cl_cache
    /\ ClFrame

\* _fetch_ticks_single, the path is not in the cache: the file is read and
\* filtered, and the filtered table is what is put in the cache and returned.
\* An exception of the read or of the put makes the fetch return None.
ClTicksMiss(start, end) ==
    /\ cl_cache["ticks"].none
    /\ cl_call' = [kind |-> "ticks", start |-> start, end |-> end]
    /\ \E read_ok, put_ok \in BOOLEAN :
        LET df == ClFilter(ClRemote, start, end)
        IN  IF read_ok /\ put_ok
            THEN /\ cl_cache' = [cl_cache EXCEPT !["ticks"] = ClFrameOf(df)]
                 /\ cl_ret' = ClFrameOf(df)
            ELSE /\ cl_ret' = ClNone
                 /\ UNCHANGED cl_cache
    /\ ClFrame

\* _fetch_fundamentals_single, the path is in the cache.
ClFundamentalsHit(start, end) ==
    /\ ~cl_cache["fundamentals"].none
    /\ cl_call' = [kind |-> "fundamentals", start |-> start, end |-> end]
    /\ cl_ret' = ClFrameOf(ClFilter(cl_cache["fundamentals"].rows, start, end))
    /\ UNCHANGED cl_cache
    /\ ClFrame

\* _fetch_fundamentals_single, the path is not in the cache: the whole file is
\* put in the cache and the filtered table is returned.
ClFundamentalsMiss(start, end) ==
    /\ cl_cache["fundamentals"].none
    /\ cl_call' = [kind |-> "fundamentals", start |-> start, end |-> end]
    /\ \E read_ok, put_ok \in BOOLEAN :
        LET df == ClRemote
        IN  IF read_ok /\ put_ok
            THEN /\ cl_cache' = [cl_cache EXCEPT !["fundamentals"] = ClFrameOf(df)]
                 /\ cl_ret' = ClFrameOf(ClFilter(df, start, end))
            ELSE /\ cl_ret' = ClNone
                 /\ UNCHANGED cl_cache
    /\ ClFrame

\* clear_cache
ClClearCache ==
    /\ cl_cache' = [k \in ClKinds |-> ClNone]
    /\ cl_call' = [kind |-> "clear_cache", start |-> 0, end |-> 0]
    /\ cl_ret' = ClNone
    /\ ClFrame

ClNext ==
    \/ \E start, end \in ClDates : ClTicksHit(start, end)
    \/ \E start, end \in ClDates : ClTicksMiss(start, end)
    \/ \E start, end \in ClDates : ClFundamentalsHit(start, end)
    \/ \E start, end \in ClDates : ClFundamentalsMiss(start, end)
    \/ ClClearCache

SpecClient == ClInit /\ [][ClNext]_vars

\* What a request returns when the cache is empty and the read succeeds.
ClEmptyCache(start, end) == ClFilter(ClRemote, start, end)

ClReturned(kind) == cl_call.kind = kind /\ ~cl_ret.none

\* C26: every ticks request that returns a table returns exactly the rows it
\* would return with an empty cache, whatever requests came before it.
C26_Transparency ==
    ClReturned("ticks") =>
        cl_ret.rows = ClEmptyCache(cl_call.start, cl_call.end)

\* The same statement for fundamentals, which cache the whole file.
C26_Fundamentals ==
    ClReturned("fundamentals") =>
        cl_ret.rows = ClEmptyCache(cl_call.start, cl_call.end)

\* A ticks request for all dates answered from a cache filled by a request for
\* date 2 only.
C26_Narrowed ==
    /\ ClReturned("ticks")
    /\ cl_call.start = 1
    /\ cl_call.end = MaxDate
    /\ cl_cache["ticks"].rows = {2}
    /\ cl_ret.rows = {2}

\* C27: whenever the session is inactive and its owner is not in the middle
\* of __exit__, the field cache is empty, whatever the other threads do.
C27_InactiveEmpty ==
    (~s_active /\ s_thr[SessOwner].pc # "clear") => s_cache = <<>>

\* A fetch the worker started while the session was active stored its Alpha
\* after __exit__ had returned.
C27_StoredAfterExit ==
    /\ ~s_active
    /\ s_thr[SessOwner].pc = "done"
    /\ s_thr[SessOwner].op = "exit"
    /\ s_thr["worker"].pc = "done"
    /\ s_thr["worker"].ret # <<>>
    /\ "close" \in DOMAIN s_cache

-----------------------------------------------------------------------------
\* CalendarMaster (data/calendar_master.py): one instance, its lazily loaded
\* calendar and the callers of _load.  A table is the set of its dates.

MaxReads == 2

CmDates == 1..MaxDate

\* The calendar file: the odd dates are trading days.
CmCalendar == {d \in CmDates : d % 2 = 1}

CmNone == [none |-> TRUE, rows |-> {}]

CmTable(rows) == [none |-> FALSE, rows |-> rows]

\* `if self._cache:` is false for a CalendarMaster built without a cache.
CmNoCache == [none |-> TRUE, rows |-> {0}]

StorageError == "StorageError"

CacheError == "CacheError"

CmInit ==
    /\ cm_df = CmNone
    /\ cm_days = CmNone
    /\ cm_cache \in {CmNoCache, CmNone, CmTable(CmCalendar)}
    /\ cm_reads = 0
    /\ cm_loaded = FALSE
    /\ cm_last = [op |-> "", arg |-> <<>>, err |-> "", value |-> <<>>]
    /\ TwIdle
    /\ BkIdle
    /\ DcIdle
    /\ CcIdle
    /\ EwIdle
    /\ SessIdle
    /\ WtIdle
    /\ ClIdle

\* _load as a function of the instance and of what the collaborators do this
\* time (get_ok, read_ok, put_ok: the cache lookup, the storage read and the
\* cache write succeed): the fields after the call, whether storage was read,
\* and the exception that left the call, if any.
CmLoad(df, days, cache, get_ok, read_ok, put_ok) ==
    LET same == [df |-> df, days |-> days, cache |-> cache, read |-> 0]
    IN  IF ~df.none
        THEN same @@ [err |-> ""]
        ELSE IF cache # CmNoCache /\ ~get_ok
        THEN same @@ [err |-> CacheError]
        ELSE IF cache # CmNoCache /\ ~cache.none
        THEN [df |-> cache, days |-> cache, cache |-> cache, read |-> 0,
              err |-> ""]
        ELSE IF ~read_ok
        THEN [df |-> df, days |-> days, cache |-> cache, read |-> 1,
              err |-> StorageError]
        ELSE IF cache # CmNoCache /\ ~put_ok
        THEN [df |-> CmTable(CmCalendar), days |-> days, cache |-> cache,
              read |-> 1, err |-> CacheError]
        ELSE [df |-> CmTable(CmCalendar), days |-> CmTable(CmCalendar),
              cache |-> IF cache = CmNoCache THEN cache
                        ELSE CmTable(CmCalendar),
              read |-> 1, err |-> ""]

\* The instance after a call whose _load ended as r.
CmAfter(r) ==
    /\ cm_df' = r.df
    /\ cm_days' = r.days
    /\ cm_cache' = r.cache
    /\ cm_reads' = cm_reads + r.read
    /\ cm_loaded' = (cm_loaded \/ r.err = "")

CmOutcome(r) == r.read = 0 \/ cm_reads < MaxReads

\* is_trading_day(dt): _load, then `dt in self._trading_days`, which is a
\* TypeError when _trading_days is None.
CmIsTradingDay(dt) ==
    /\ \E get_ok, read_ok, put_ok \in BOOLEAN :
        LET r == CmLoad(cm_df, cm_days, cm_cache, get_ok, read_ok, put_ok)
        IN  /\ CmOutcome(r)
            /\ CmAfter(r)
            /\ cm_last' = [op |-> "is_trading_day", arg |-> <<dt>>,
                           err |-> IF r.err # "" THEN r.err
                                   ELSE IF r.days.none THEN TypeError ELSE "",
                           value |-> IF r.err = "" /\ ~r.days.none
                                     THEN <<dt \in r.days.rows>> ELSE <<>>]
    /\ CmFrame

\* get_trading_days(start, end): _load, then the dates of the returned table
\* within the range.
CmGetTradingDays(start, end) ==
    /\ \E get_ok, read_ok, put_ok \in BOOLEAN :
        LET r == CmLoad(cm_df, cm_days, cm_cache, get_ok, read_ok, put_ok)
        IN  /\ CmOutcome(r)
            /\ CmAfter(r)
            /\ cm_last' = [op |-> "get_trading_days", arg |-> <<start, end>>,
                           err |-> r.err,
                           value |-> IF r.err = ""
                                     THEN <<{d \in r.df.rows :
                                                d >= start /\ d <= end}>>
                                     ELSE <<>>]
    /\ CmFrame

CmNext ==
    \/ \E dt \in CmDates : CmIsTradingDay(dt)
    \/ \E start, end \in CmDates : CmGetTradingDays(start, end)

SpecCalendar == CmInit /\ [][CmNext]_vars

\* C28: after any call of _load, returned or raised, _df is set only if
\* _trading_days is set.
C28_LoadInvariant == ~cm_df.none => ~cm_days.none

\* is_trading_day never tests membership in an unset calendar.
C28_NoUnsetMembership == cm_last.err # TypeError

\* Once a load has succeeded the storage backend is not read again.
C28_ReadOnce == [][cm_loaded => cm_reads' = cm_reads]_vars

\* The cache write failed after the read: later calls of is_trading_day find
\* _df set and _trading_days unset.
C28_HalfLoaded ==
    /\ ~cm_df.none
    /\ cm_days.none
    /\ cm_last.op = "is_trading_day"
    /\ cm_last.err = TypeError
    /\ cm_loaded

\* The brackets (lower, upper] of j and h share a value.
BkOverlap(j, h) ==
    /\ CellLt(brackets[j].lower, brackets[h].upper)
    /\ CellLt(brackets[h].lower, brackets[j].upper)

BkStrictlyAscending ==
    \A j \in 1..(Len(boundaries) - 1) : boundaries[j] < boundaries[j + 1]

\* C29: for every range_spec or buckets string, bucket raises
\* InvalidBucketSpecError or goes on with at least two strictly ascending
\* boundaries; it raises nothing else and builds no empty and no overlapping
\* bracket.
C29_Totality ==
    /\ bk_pc = "raised" => bk_error = InvalidBucketSpecError
    /\ bk_pc \in {"parsed", "built", "done"} =>
          Len(boundaries) >= 2 /\ BkStrictlyAscending
    /\ bk_pc \in {"built", "done"} =>
          /\ \A j \in 1..Len(brackets) :
                CellLt(brackets[j].lower, brackets[j].upper)
          /\ \A j, h \in 1..Len(brackets) : j # h => ~BkOverlap(j, h)

\* range_spec "5,0,5": start > end, the walk is empty and boundaries[0]
\* raises IndexError.
C29_EmptyWalk ==
    /\ range_spec = SpecStr(<<Num(5), Num(0), Num(5)>>)
    /\ bk_pc = "raised"
    /\ bk_error = IndexError

\* range_spec "0,5,10": step > end - start, a single boundary and the two
\* hidden brackets only.
C29_SingleBoundary ==
    /\ range_spec = SpecStr(<<Num(0), Num(5), Num(10)>>)
    /\ bk_pc = "done"
    /\ boundaries = <<0>>
    /\ Len(brackets) = 2

\* buckets "10,0": accepted; the bracket (10, 0] is empty and the hidden
\* brackets (-inf, 10] and (0, +inf) overlap.
C29_Descending ==
    /\ buckets = SpecStr(<<Num(10), Num(0)>>)
    /\ ~bk_flags.skipBegin /\ ~bk_flags.skipEnd /\ ~bk_flags.skipBoth
    /\ bk_pc = "done"
    /\ boundaries = <<10, 0>>
    /\ ~CellLt(brackets[2].lower, brackets[2].upper)
    /\ BkOverlap(1, 3)

\* The keys in a sequence.
DcKeysOf(seq) == {seq[j] : j \in 1..Len(seq)}

\* C30: a put of key evicts only other entries, which were resident, and
\* leaves the cap satisfied or key alone in the cache; the get of key that
\* follows the put, within the TTL, hits with the table that was put.
C30_KeepsOwn ==
    [][\A key \in Keys :
          /\ DcKeyStep("put", key) =>
                /\ key \in DOMAIN entries'
                /\ key \notin DcKeysOf(dc_op'.removed)
                /\ DcKeysOf(dc_op'.removed) \subseteq Resident
                /\ DOMAIN entries' = (Resident \cup {key}) \ DcKeysOf(dc_op'.removed)
                /\ \/ DcTotal(entries') <= MaxSizeBytes
                   \/ DOMAIN entries' = {key}
          /\ (dc_op.op = "put" /\ dc_op.key = key /\ DcKeyStep("get", key)) =>
                /\ key \in Resident
                /\ now - entries[key].created_at <= TtlSeconds =>
                      dc_op'.hit /\ dc_op'.table = put_log[key]
      ]_vars

\* A put of a table larger than the cap has evicted the other entries and
\* left its own entry alone in the cache.
C30_Witness ==
    /\ dc_op.op = "put"
    /\ dc_op.removed # <<>>
    /\ Resident = {dc_op.key}
    /\ entries[dc_op.key].size_bytes > MaxSizeBytes

\* The get that followed such a put one tick later hit.
C30_GetHits ==
    /\ dc_op.op = "get"
    /\ dc_op.hit
    /\ dc_op.table.size > MaxSizeBytes
    /\ Resident = {dc_op.key}
    /\ entries[dc_op.key].last_accessed_at > entries[dc_op.key].created_at

=============================================================================
